---- MODULE Spec2Model ----
(***************************************************************************)
(* Real-time session and room-broadcast engine of the chat backend         *)
(* (backend/ws.js, services/messages.js, services/rooms.js, state.js,      *)
(* auth.js, routes/rooms.js, routes/auth.js), and the connection           *)
(* life cycle of the browser client (chat-frontend/src/App.jsx).           *)
(*                                                                         *)
(* Node runs the handlers on one thread: a handler runs without            *)
(* interruption from one `await` to the next, and other handlers run       *)
(* while it is suspended.  Every action below is one such synchronous      *)
(* segment.  A database read takes its result when the call is issued, a   *)
(* database write takes effect when the awaiting handler resumes.          *)
(***************************************************************************)
EXTENDS Integers, Sequences, FiniteSets, TLC

\* ---------------------------------------------------------------- bounds
NumGens == 2         \* Set objects of one room id alive at one time
NumTimerIds == 4     \* setTimeout handles alive at one time
MaxClock == 1        \* largest value Date.now() takes (ticks)
NumSockets == 3      \* WebSocket objects of the client alive at one time
NumClientTimers == 2 \* reconnect timer handles the browser hands out in turn
MaxAttempts == 6     \* largest value of reconnectAttemptsRef

\* ------------------------------------------------------ program constants
CloseUnauthorized == 1008
CloseServerError == 1011

\* ----------------------------------------------------------- the universe
Conns == {"c1", "c2"}
Users == {"alice", "bob"}
NoUser == "-"
NoRoomId == "-"
NoConn == "-"
NoText == "-"

\* A public room, a private group whose id has the "dm:" prefix (POST /rooms
\* takes any id), and an id no Room document has.
PublicRoom == "general"
PrivateRoom == "dm:crew"
GhostRoom == "ghost"
RoomIds == {PublicRoom, PrivateRoom, GhostRoom}

\* Set objects are numbered per room id: those created for the i-th room id
\* are i * NumGens + 1 .. i * NumGens + NumGens.
RoomIndex(r) == CASE r = PublicRoom -> 0 [] r = PrivateRoom -> 1 [] OTHER -> 2
SetIdsOf(r) == {RoomIndex(r) * NumGens + k : k \in 1..NumGens}
SetIds == UNION {SetIdsOf(r) : r \in RoomIds}
TimerIds == 1..NumTimerIds
NoSet == 0

\* Tokens a client may put in the connect URL ("" is a missing token).
NoToken == ""
Tokens == {"tokA", "tokB", "tokOld", "tokGone", "tokBad"}
\* The token parameter of the request URL as the client wrote it.
RawTokens == Tokens \cup {" tokA ", " ", NoToken}

\* ------------------------------------------------------------ JS Map helpers
EmptyMap == << >>

MapHas(m, k) == k \in DOMAIN m

MapSet(m, k, v) == [x \in (DOMAIN m) \cup {k} |-> IF x = k THEN v ELSE m[x]]

MapDelete(m, k) == [x \in (DOMAIN m) \ {k} |-> m[x]]

\* Insertion-ordered Set of a meta object (meta.rooms), kept as a sequence.
SeqHas(s, x) == \E i \in 1..Len(s) : s[i] = x

\* Variant: Array.prototype.push instead of Set.prototype.add.
SeqAdd_push(s, x) == Append(s, x)

SeqAdd(s, x) == IF SeqHas(s, x) THEN s ELSE Append(s, x)

SeqDelete(s, x) == SelectSeq(s, LAMBDA y : y # x)


\* ------------------------------------------------------------------- state
VARIABLES
    sock,          \* ws.readyState of each connection: "none" | "open" | "closed"
    closeCode,     \* code of the server's ws.close call on the socket (0: none)
    hs,            \* position of the connection handler (wss.on('connection'))
    hsUser,        \* identity resolved by the connection handler
    hsToken,       \* token parsed by the connection handler
    sessions,      \* Session collection: token -> [userId, expired]
    userStatus,    \* User.status of every user document
    roomDb,        \* Room collection: roomId -> record
    socketMeta,    \* keys of the socketMeta Map
    metaUser,      \* meta.userId / meta.username of each connection's meta object
    metaRooms,     \* meta.rooms of each connection's meta object (insertion order)
    rooms,         \* the rooms Map: roomId -> Set object
    heap,          \* contents of the Set objects
    onlineUsers,   \* the onlineUsers Map: userId -> set of sockets
    typingTimers,  \* the typingTimers Map: roomId -> (userId -> timer handle)
    timers,        \* pending setTimeout callbacks: handle -> closure
    readReceipts,  \* the readReceipts Map: roomId -> (userId -> timestamp)
    now,           \* last value returned by Date.now()
    tasks,         \* suspended message / moderation handlers, by slot; the
                   \* domain is the slots the run uses
    cl,            \* position of each connection's close handler
    out,           \* frames written to sockets by the last step
    calls,         \* database writes issued by the last step
    last,          \* the last step: which handler segment ran, for whom
    \* the browser client (App.jsx)
    lifecycle,             \* the App component: "new" | "mounted" | "unmounted"
    storedToken,           \* localStorage[SESSION_TOKEN_KEY]
    sessionTokenRef,       \* sessionTokenRef.current
    shouldReconnectRef,    \* shouldReconnectRef.current
    userSet,               \* the userSet state: the chat is shown, not the auth page
    socketRef,             \* socketRef.current: a WebSocket object or NoSocket
    wsState,               \* readyState of each WebSocket object the client made
    reconnectTimeoutRef,   \* reconnectTimeoutRef.current: a timer handle or NoTimer
    reconnectAttemptsRef,  \* reconnectAttemptsRef.current
    clientTimers,          \* pending reconnect timeouts: handle -> delay (ms)
    hasConnectedRef,       \* hasConnectedRef.current
    connectionStatus,      \* the connectionStatus state
    pending,               \* requests of the client awaiting their response
    joinedRoomsRef,        \* joinedRoomsRef.current: the room ids the client joined
    sent                   \* JOIN_ROOM frames the client's last step sent: [socket, roomId]

clientVars == << lifecycle, storedToken, sessionTokenRef, shouldReconnectRef, userSet,
                socketRef, wsState, reconnectTimeoutRef, reconnectAttemptsRef,
                clientTimers, hasConnectedRef, connectionStatus, pending,
                joinedRoomsRef, sent >>

vars == << sock, closeCode, hs, hsUser, hsToken, sessions, userStatus, roomDb,
           socketMeta, metaUser, metaRooms, rooms, heap, onlineUsers,
           typingTimers, timers, readReceipts, now, tasks, cl, out, calls, last,
           clientVars >>

dbVars == << sessions, userStatus, roomDb >>
hsVars == << hs, hsUser, hsToken >>
sockVars == << sock, closeCode >>
metaVars == << socketMeta, metaUser, metaRooms >>
roomVars == << rooms, heap >>
typingVars == << typingTimers, timers >>
receiptVars == << readReceipts, now >>

\* -------------------------------------------------------------- the client
ClientSockets == 1..NumSockets
ClientTimerIds == 1..NumClientTimers
NoSocket == 0
NoTimer == 0

\* App.jsx, the useRef / useState initial values: the component has been
\* constructed and its mount effect has not run.  What localStorage holds is
\* read by the mount effect.
ClientIdle ==
    /\ lifecycle = "new"
    /\ storedToken = NoToken
    /\ sessionTokenRef = NoToken
    /\ shouldReconnectRef = TRUE
    /\ userSet = FALSE
    /\ socketRef = NoSocket
    /\ wsState = [s \in ClientSockets |-> "none"]
    /\ reconnectTimeoutRef = NoTimer
    /\ reconnectAttemptsRef = 0
    /\ clientTimers = << >>
    /\ hasConnectedRef = FALSE
    /\ connectionStatus = "disconnected"
    /\ pending = {}
    /\ joinedRoomsRef = {}
    /\ sent = {}

\* ------------------------------------------------------------ the database
UserDb == {"alice", "bob"}

NoRoom == [exists |-> FALSE, type |-> "-", members |-> {}, bannedMembers |-> {},
           createdBy |-> NoUser]

InitRoomDb ==
    [r \in RoomIds |->
        CASE r = PublicRoom ->
               [exists |-> TRUE, type |-> "public", members |-> {},
                bannedMembers |-> {}, createdBy |-> "alice"]
          [] r = PrivateRoom ->
               [exists |-> TRUE, type |-> "private", members |-> {"alice", "bob"},
                bannedMembers |-> {}, createdBy |-> "alice"]
          [] OTHER -> NoRoom]

InitSessions ==
    [t \in {"tokA", "tokB", "tokOld", "tokGone"} |->
        CASE t = "tokA" -> [userId |-> "alice", expired |-> FALSE]
          [] t = "tokB" -> [userId |-> "bob", expired |-> FALSE]
          [] t = "tokOld" -> [userId |-> "alice", expired |-> TRUE]
          [] OTHER -> [userId |-> "carol", expired |-> FALSE]]

\* ------------------------------------------------------------ frames, calls
Frame(to, type, roomId, text, username, isTyping) ==
    [to |-> to, type |-> type, roomId |-> roomId, text |-> text,
     username |-> username, isTyping |-> isTyping, timestamp |-> 0]

Call(fn, roomId, userId, type, text) ==
    [fn |-> fn, roomId |-> roomId, userId |-> userId, type |-> type, text |-> text]

Step(op, conn, roomId) == [op |-> op, conn |-> conn, roomId |-> roomId]

IdleTask == [pc |-> "idle", conn |-> NoConn, roomId |-> NoRoomId, text |-> NoText,
             room |-> NoSet, rec |-> NoRoom, actor |-> NoUser, target |-> NoUser,
             ban |-> FALSE]

NoClose == [pc |-> "none", visited |-> {}, roomId |-> NoRoomId, room |-> NoSet]

\* Variant: the frame is written whatever the readyState of the socket.
sendEvent_unchecked(sk, to, type, roomId, text, username, isTyping) ==
    {Frame(to, type, roomId, text, username, isTyping)}

\* wsUtils.sendEvent: the frame is written only to a socket that is OPEN.
sendEvent(sk, to, type, roomId, text, username, isTyping) ==
    IF sk[to] = "open" THEN {Frame(to, type, roomId, text, username, isTyping)} ELSE {}

\* `for (const client of room) sendEvent(client, ...)` over the Set object s.
Broadcast(sk, hp, s, type, roomId, text, username, isTyping) ==
    UNION {sendEvent(sk, c, type, roomId, text, username, isTyping) : c \in hp[s]}

\* ------------------------------------------------------------------ Init
Init ==
    /\ sock = [c \in Conns |-> "none"]
    /\ closeCode = [c \in Conns |-> 0]
    /\ hs = [c \in Conns |-> "none"]
    /\ hsUser = [c \in Conns |-> NoUser]
    /\ hsToken = [c \in Conns |-> NoToken]
    /\ sessions = InitSessions
    /\ userStatus = [u \in UserDb |-> "offline"]
    /\ roomDb = InitRoomDb
    /\ socketMeta = {}
    /\ metaUser = [c \in Conns |-> NoUser]
    /\ metaRooms = [c \in Conns |-> << >>]
    /\ rooms = EmptyMap
    /\ heap = [s \in SetIds |-> {}]
    /\ onlineUsers = EmptyMap
    /\ typingTimers = EmptyMap
    /\ timers = EmptyMap
    /\ readReceipts = EmptyMap
    /\ now = 0
    /\ tasks = [t \in {"h1"} |-> IdleTask]
    /\ cl = [c \in Conns |-> NoClose]
    /\ out = {}
    /\ calls = {}
    /\ last = Step("init", NoConn, NoRoomId)
    /\ ClientIdle

\* ------------------------------------------------------- auth.js helpers
\* utils/strings.normalizeNonEmptyString applied to the `token` query
\* parameter: a missing or blank parameter is null (here NoToken).
parseTokenFromRequest(raw) ==
    CASE raw = " tokA " -> "tokA"
      [] raw = " " -> NoToken
      [] OTHER -> raw

\* Variant: the expiry of the session is not looked at.
resolveAuthenticatedIdentity_noExpiry(ss, tok) ==
    IF ~MapHas(ss, tok) THEN NoUser
    ELSE IF ss[tok].userId \notin UserDb THEN NoUser
    ELSE ss[tok].userId

\* auth.resolveAuthenticatedIdentity: the user the token resolves to, or
\* NoUser (null) when no session has the token, the session has expired, or
\* its user document is gone.
resolveAuthenticatedIdentity(ss, tok) ==
    IF ~MapHas(ss, tok) THEN NoUser
    ELSE IF ss[tok].expired THEN NoUser
    ELSE IF ss[tok].userId \notin UserDb THEN NoUser
    ELSE ss[tok].userId

\* ws.close(code) called by the server.
wsClose(c, code) ==
    /\ sock' = [sock EXCEPT ![c] = "closed"]
    /\ closeCode' = [closeCode EXCEPT ![c] = code]

\* ------------------------------------------- services/messages.js: typing
\* Variant: the user's key is deleted but an emptied inner map stays in
\* typingTimers.
stopTypingMap_leaveEmpty(tt, r, u) ==
    IF ~MapHas(tt, r) THEN tt
    ELSE MapSet(tt, r, MapDelete(tt[r], u))

\* stopTypingForUser(roomId, userId): the typingTimers Map afterwards.
stopTypingMap(tt, r, u) ==
    IF ~MapHas(tt, r) THEN tt
    ELSE LET roomTyping == MapDelete(tt[r], u)
         IN  IF DOMAIN roomTyping = {} THEN MapDelete(tt, r)
             ELSE MapSet(tt, r, roomTyping)

\* Variant: clearTimeout is left out.
stopTypingTimers_keep(tt, tm, r, u) == tm

\* stopTypingForUser(roomId, userId): the pending timeouts afterwards
\* (clearTimeout of the handle stored for the user, if any).
stopTypingTimers(tt, tm, r, u) ==
    IF MapHas(tt, r) /\ MapHas(tt[r], u) THEN MapDelete(tm, tt[r][u]) ELSE tm

\* -------------------------------------------------- wss.on('connection')
\* The connection arrives; the token is parsed from the URL.
Connect(c, tok) ==
    /\ sock[c] = "none"
    /\ IF parseTokenFromRequest(tok) = NoToken
       THEN /\ wsClose(c, CloseUnauthorized)
            /\ hs' = [hs EXCEPT ![c] = "rejected"]
            /\ UNCHANGED hsUser
       ELSE /\ sock' = [sock EXCEPT ![c] = "open"]
            /\ UNCHANGED closeCode
            /\ hs' = [hs EXCEPT ![c] = "resolve"]
            /\ hsUser' = [hsUser EXCEPT ![c] =
                             resolveAuthenticatedIdentity(sessions, parseTokenFromRequest(tok))]
    /\ hsToken' = [hsToken EXCEPT ![c] = parseTokenFromRequest(tok)]
    /\ out' = {}
    /\ calls' = {}
    /\ last' = Step("connect", c, NoRoomId)
    /\ UNCHANGED << dbVars, metaVars, roomVars, onlineUsers, typingVars,
                    receiptVars, tasks, cl, clientVars >>

\* resolveAuthenticatedIdentity returns.
ConnResolved(c) ==
    /\ hs[c] = "resolve"
    /\ IF hsUser[c] = NoUser
       THEN /\ sessions' = IF MapHas(sessions, hsToken[c])
                           THEN MapDelete(sessions, hsToken[c]) ELSE sessions
            /\ calls' = IF MapHas(sessions, hsToken[c])
                        THEN {Call("Session.deleteOne", NoRoomId, NoUser, "-", hsToken[c])}
                        ELSE {}
            /\ wsClose(c, CloseUnauthorized)
            /\ hs' = [hs EXCEPT ![c] = "rejected"]
       ELSE /\ hs' = [hs EXCEPT ![c] = "userdata"]
            /\ calls' = {}
            /\ UNCHANGED << sessions, sockVars >>
    /\ out' = {}
    /\ last' = Step("conn_resolved", c, NoRoomId)
    /\ UNCHANGED << hsUser, hsToken, userStatus, roomDb, metaVars, roomVars,
                    onlineUsers, typingVars, receiptVars, tasks, cl, clientVars >>

\* Variant: the presence set is created anew for every connection, without
\* the onlineUsers.has test.
ConnUserData_reset(c) ==
    /\ hs[c] = "userdata"
    /\ socketMeta' = socketMeta \cup {c}
    /\ metaUser' = [metaUser EXCEPT ![c] = hsUser[c]]
    /\ metaRooms' = [metaRooms EXCEPT ![c] = << >>]
    /\ onlineUsers' = MapSet(onlineUsers, hsUser[c], {})
    /\ calls' = {Call("User.updateOne", NoRoomId, hsUser[c], "-", "online")}
    /\ hs' = [hs EXCEPT ![c] = "online"]
    /\ out' = {}
    /\ last' = Step("conn_registered", c, NoRoomId)
    /\ UNCHANGED << hsUser, hsToken, dbVars, sockVars, roomVars, typingVars,
                    receiptVars, tasks, cl, clientVars >>

\* User.findById returns: the registry entry is created, presence is updated.
ConnUserData(c) ==
    /\ hs[c] = "userdata"
    /\ socketMeta' = socketMeta \cup {c}
    /\ metaUser' = [metaUser EXCEPT ![c] = hsUser[c]]
    /\ metaRooms' = [metaRooms EXCEPT ![c] = << >>]
    /\ IF ~MapHas(onlineUsers, hsUser[c])
       THEN /\ onlineUsers' = MapSet(onlineUsers, hsUser[c], {})
            /\ calls' = {Call("User.updateOne", NoRoomId, hsUser[c], "-", "online")}
            /\ hs' = [hs EXCEPT ![c] = "online"]
       ELSE /\ onlineUsers' = MapSet(onlineUsers, hsUser[c], onlineUsers[hsUser[c]] \cup {c})
            /\ calls' = {}
            /\ hs' = [hs EXCEPT ![c] = "ready"]
    /\ out' = {}
    /\ last' = Step("conn_registered", c, NoRoomId)
    /\ UNCHANGED << hsUser, hsToken, dbVars, sockVars, roomVars, typingVars,
                    receiptVars, tasks, cl, clientVars >>

\* User.updateOne(status: 'online') returns; onlineUsers.get(userId).add(ws)
\* throws when the key has been deleted meanwhile, and the catch closes the
\* socket with 1011 before the handlers are registered.
ConnOnline(c) ==
    /\ hs[c] = "online"
    /\ userStatus' = [userStatus EXCEPT ![hsUser[c]] = "online"]
    /\ IF MapHas(onlineUsers, hsUser[c])
       THEN /\ onlineUsers' = MapSet(onlineUsers, hsUser[c], onlineUsers[hsUser[c]] \cup {c})
            /\ hs' = [hs EXCEPT ![c] = "ready"]
            /\ UNCHANGED sockVars
       ELSE /\ wsClose(c, CloseServerError)
            /\ hs' = [hs EXCEPT ![c] = "failed"]
            /\ UNCHANGED onlineUsers
    /\ out' = {}
    /\ calls' = {}
    /\ last' = Step("conn_online", c, NoRoomId)
    /\ UNCHANGED << hsUser, hsToken, sessions, roomDb, metaVars, roomVars,
                    typingVars, receiptVars, tasks, cl, clientVars >>

\* ------------------------------------------------------------ ws.on('close')
DoneClose == [pc |-> "done", visited |-> {}, roomId |-> NoRoomId, room |-> NoSet]

AbortedClose == [pc |-> "aborted", visited |-> {}, roomId |-> NoRoomId, room |-> NoSet]

\* `for (const roomId of meta.rooms)`: index of the next room id the iterator
\* yields for which rooms.get(roomId) exists (the others `continue`), 0 when
\* the iteration is over.  vis holds the ids the iterator has passed.
CloseNextIdx(c, vis, rms) ==
    LET cand == {i \in 1..Len(metaRooms[c]) :
                    metaRooms[c][i] \notin vis /\ MapHas(rms, metaRooms[c][i])}
    IN  IF cand = {} THEN 0 ELSE CHOOSE i \in cand : \A j \in cand : i <= j

leftText(u, r) == u \o " left " \o r

\* The close handler from the top of the for loop up to its next await (the
\* persistMessage of the next room's leave notice) or to its end
\* (socketMeta.delete).  rms, hp: rooms and Set objects as the segment left them.
CloseLoop(c, vis, rms, hp, sk, outAcc, callsAcc) ==
    LET i == CloseNextIdx(c, vis, rms)
        u == metaUser[c]
    IN  IF i = 0
        THEN /\ socketMeta' = socketMeta \ {c}
             /\ cl' = [cl EXCEPT ![c] = DoneClose]
             /\ out' = outAcc
             /\ calls' = callsAcc
             /\ UNCHANGED typingVars
        ELSE LET r == metaRooms[c][i]
             IN  /\ typingTimers' = stopTypingMap(typingTimers, r, u)
                 /\ timers' = stopTypingTimers(typingTimers, timers, r, u)
                 /\ out' = outAcc \cup Broadcast(sk, hp, rms[r], "TYPING", r, NoText, u, "false")
                 /\ calls' = callsAcc \cup {Call("persist", r, u, "SYSTEM", leftText(u, r))}
                 /\ cl' = [cl EXCEPT ![c] =
                             [pc |-> "persist",
                              visited |-> vis \cup {metaRooms[c][j] : j \in 1..i},
                              roomId |-> r, room |-> rms[r]]]
                 /\ UNCHANGED socketMeta

\* The socket closes (peer close or network drop).  The close handler runs
\* only when the connection handler has registered it: presence is updated,
\* then either the 'offline' write is awaited or the room loop starts.
Close(c) ==
    /\ sock[c] = "open"
    /\ sock' = [sock EXCEPT ![c] = "closed"]
    /\ UNCHANGED closeCode
    /\ last' = Step("close", c, NoRoomId)
    /\ IF hs[c] # "ready" \/ c \notin socketMeta
       THEN /\ out' = {}
            /\ calls' = {}
            /\ UNCHANGED << socketMeta, onlineUsers, typingVars, cl >>
       ELSE LET u == metaUser[c]
                userSockets == IF MapHas(onlineUsers, u) THEN onlineUsers[u] \ {c} ELSE {}
            IN  IF MapHas(onlineUsers, u) /\ userSockets = {}
                THEN /\ onlineUsers' = MapDelete(onlineUsers, u)
                     /\ calls' = {Call("User.updateOne", NoRoomId, u, "-", "offline")}
                     /\ out' = {}
                     /\ cl' = [cl EXCEPT ![c] = [NoClose EXCEPT !.pc = "offline"]]
                     /\ UNCHANGED << socketMeta, typingVars >>
                ELSE /\ onlineUsers' = IF MapHas(onlineUsers, u)
                                       THEN MapSet(onlineUsers, u, userSockets)
                                       ELSE onlineUsers
                     /\ CloseLoop(c, {}, rooms, heap, sock', {}, {})
    /\ UNCHANGED << hsVars, dbVars, metaUser, metaRooms, roomVars, receiptVars, tasks, clientVars >>

\* User.updateOne(status: 'offline') returns; the room loop starts.
CloseOffline(c) ==
    /\ cl[c].pc = "offline"
    /\ userStatus' = [userStatus EXCEPT ![metaUser[c]] = "offline"]
    /\ CloseLoop(c, {}, rooms, heap, sock, {}, {})
    /\ last' = Step("close_offline", c, NoRoomId)
    /\ UNCHANGED << sockVars, hsVars, sessions, roomDb, metaUser, metaRooms,
                    roomVars, onlineUsers, receiptVars, tasks, clientVars >>

\* Variant: the emptied Set object is left in rooms (no rooms.delete).
ClosePersisted_keepEntry(c, ok) ==
    /\ cl[c].pc = "persist"
    /\ last' = Step(IF ok THEN "close_left" ELSE "close_abort", c, cl[c].roomId)
    /\ IF ok
       THEN LET r == cl[c].roomId
                s == cl[c].room
                u == metaUser[c]
                hp == [heap EXCEPT ![s] = @ \ {c}]
            IN  /\ heap' = hp
                /\ rooms' = rooms
                /\ CloseLoop(c, cl[c].visited, rooms, hp, sock,
                             Broadcast(sock, heap, s, "SYSTEM", r, leftText(u, r), NoUser, "-"),
                             {})
       ELSE /\ cl' = [cl EXCEPT ![c] = AbortedClose]
            /\ out' = {}
            /\ calls' = {}
            /\ UNCHANGED << socketMeta, roomVars, typingVars >>
    /\ UNCHANGED << sockVars, hsVars, dbVars, metaUser, metaRooms, onlineUsers,
                    receiptVars, tasks, clientVars >>

\* persistMessage of a leave notice returns (ok) or throws (~ok).  On return
\* the notice is broadcast, the socket leaves the captured Set object, the
\* rooms entry of that room id is deleted when the captured Set is empty, and
\* the loop goes on.  A throw ends the handler where it is.
ClosePersisted(c, ok) ==
    /\ cl[c].pc = "persist"
    /\ last' = Step(IF ok THEN "close_left" ELSE "close_abort", c, cl[c].roomId)
    /\ IF ok
       THEN LET r == cl[c].roomId
                s == cl[c].room
                u == metaUser[c]
                hp == [heap EXCEPT ![s] = @ \ {c}]
                rms == IF hp[s] = {} /\ MapHas(rooms, r) THEN MapDelete(rooms, r) ELSE rooms
            IN  /\ heap' = hp
                /\ rooms' = rms
                /\ CloseLoop(c, cl[c].visited, rms, hp, sock,
                             Broadcast(sock, heap, s, "SYSTEM", r, leftText(u, r), NoUser, "-"),
                             {})
       ELSE /\ cl' = [cl EXCEPT ![c] = AbortedClose]
            /\ out' = {}
            /\ calls' = {}
            /\ UNCHANGED << socketMeta, roomVars, typingVars >>
    /\ UNCHANGED << sockVars, hsVars, dbVars, metaUser, metaRooms, onlineUsers,
                    receiptVars, tasks, clientVars >>

\* ------------------------------------------------------ the Frame Codec
\* Values a client can put in a frame.  NonString stands for a value whose
\* typeof is not 'string' (a number, or the field is missing), NonBool for
\* one whose typeof is not 'boolean'.
NonString == "<non-string>"
NonBool == "<non-boolean>"
Null == "<null>"

RawRoomIds == RoomIds \cup {" general ", "!!", " ", NonString}
RawTexts == {"hi", " hi ", "javascript:", " ", NonString}
RawTyping == {"true", "false", NonBool}

RawFrame(shape, type, roomId, text, isTyping, isEncrypted) ==
    [shape |-> shape, type |-> type, roomId |-> roomId, text |-> text,
     isTyping |-> isTyping, isEncrypted |-> isEncrypted]

\* String.prototype.trim on the raw values.
Trim(v) ==
    CASE v = " general " -> "general"
      [] v = " hi " -> "hi"
      [] v = " " -> ""
      [] OTHER -> v

\* utils/strings.normalizeNonEmptyString
normalizeNonEmptyString(v) ==
    IF v = NonString THEN Null
    ELSE IF Trim(v) = "" THEN Null ELSE Trim(v)

\* utils/sanitize.sanitizeRoomId: characters outside [a-zA-Z0-9_:-] are removed.
sanitizeRoomId(v) ==
    CASE v = "!!" -> ""
      [] OTHER -> v

\* utils/sanitize.sanitizeMessage: trims and strips the dangerous patterns.
sanitizeMessage(v) ==
    CASE v = "javascript:" -> ""
      [] OTHER -> Trim(v)

Msg(type, roomId, text, isTyping, isEncrypted) ==
    [type |-> type, roomId |-> roomId, text |-> text, isTyping |-> isTyping,
     isEncrypted |-> isEncrypted]

NullMsg == Msg("null", NoRoomId, NoText, "-", FALSE)

\* The room id of a parsed payload: normalised, then sanitised; Null when
\* either step leaves nothing.
parseRoomId(v) ==
    IF normalizeNonEmptyString(v) = Null THEN Null
    ELSE IF sanitizeRoomId(normalizeNonEmptyString(v)) = "" THEN Null
    ELSE sanitizeRoomId(normalizeNonEmptyString(v))

\* Variant: SEND_MESSAGE with any text.
parseClientMessage_anyText(f) ==
    IF f.shape # "ok" THEN NullMsg
    ELSE IF f.type = "JOIN_ROOM" THEN
        IF parseRoomId(f.roomId) = Null THEN NullMsg
        ELSE Msg("JOIN_ROOM", parseRoomId(f.roomId), NoText, "-", FALSE)
    ELSE IF f.type = "SEND_MESSAGE" THEN
        IF parseRoomId(f.roomId) = Null THEN NullMsg
        ELSE Msg("SEND_MESSAGE", parseRoomId(f.roomId),
                 IF f.text = NonString THEN NoText ELSE Trim(f.text), "-", f.isEncrypted = TRUE)
    ELSE IF f.type = "TYPING" THEN
        IF normalizeNonEmptyString(f.roomId) = Null \/ f.isTyping = NonBool THEN NullMsg
        ELSE IF parseRoomId(f.roomId) = Null THEN NullMsg
        ELSE Msg("TYPING", parseRoomId(f.roomId), NoText, f.isTyping, FALSE)
    ELSE IF f.type = "READ_RECEIPT" THEN
        IF parseRoomId(f.roomId) = Null THEN NullMsg
        ELSE Msg("READ_RECEIPT", parseRoomId(f.roomId), NoText, "-", FALSE)
    ELSE NullMsg

\* parseClientMessage(raw): the validated message, or NullMsg (null).
parseClientMessage(f) ==
    IF f.shape # "ok" THEN NullMsg
    ELSE IF f.type = "JOIN_ROOM" THEN
        IF parseRoomId(f.roomId) = Null THEN NullMsg
        ELSE Msg("JOIN_ROOM", parseRoomId(f.roomId), NoText, "-", FALSE)
    ELSE IF f.type = "SEND_MESSAGE" THEN
        IF normalizeNonEmptyString(f.roomId) = Null
           \/ normalizeNonEmptyString(f.text) = Null THEN NullMsg
        ELSE IF parseRoomId(f.roomId) = Null THEN NullMsg
        ELSE Msg("SEND_MESSAGE", parseRoomId(f.roomId),
                 normalizeNonEmptyString(f.text), "-", f.isEncrypted = TRUE)
    ELSE IF f.type = "TYPING" THEN
        IF normalizeNonEmptyString(f.roomId) = Null \/ f.isTyping = NonBool THEN NullMsg
        ELSE IF parseRoomId(f.roomId) = Null THEN NullMsg
        ELSE Msg("TYPING", parseRoomId(f.roomId), NoText, f.isTyping, FALSE)
    ELSE IF f.type = "READ_RECEIPT" THEN
        IF parseRoomId(f.roomId) = Null THEN NullMsg
        ELSE Msg("READ_RECEIPT", parseRoomId(f.roomId), NoText, "-", FALSE)
    ELSE NullMsg

\* The frames the clients send: the four known types over the raw values,
\* text that is not JSON, JSON of the wrong shape, and an unknown type.
JoinFrames == {RawFrame("ok", "JOIN_ROOM", r, NonString, NonBool, FALSE) : r \in RawRoomIds}

SendFrames ==
    {RawFrame("ok", "SEND_MESSAGE", r, "hi", NonBool, FALSE) : r \in RawRoomIds}
    \cup {RawFrame("ok", "SEND_MESSAGE", PublicRoom, x, NonBool, e) : x \in RawTexts, e \in BOOLEAN}

\* The clients type in the private room only and send receipts for the
\* public room only (and for ids that are refused or not joined).
TypingFrames ==
    {RawFrame("ok", "TYPING", r, NonString, "true", FALSE) :
              r \in {x \in RawRoomIds : parseRoomId(x) # PublicRoom}}
    \cup {RawFrame("ok", "TYPING", r, NonString, y, FALSE) :
              r \in {PrivateRoom, GhostRoom}, y \in RawTyping}

ReceiptFrames ==
    {RawFrame("ok", "READ_RECEIPT", r, NonString, NonBool, FALSE) :
              r \in {x \in RawRoomIds : parseRoomId(x) # PrivateRoom}}

OtherFrames ==
    {RawFrame(sh, "-", NonString, NonString, NonBool, FALSE) : sh \in {"notjson", "badshape"}}
    \cup {RawFrame("ok", "PING", PublicRoom, NonString, NonBool, FALSE)}

FrameInputs == JoinFrames \cup SendFrames \cup TypingFrames \cup ReceiptFrames \cup OtherFrames

\* The frames parseClientMessage rejects.
InvalidFrames == {f \in FrameInputs : parseClientMessage(f) = NullMsg}

\* The frame f with identity fields added to its payload by the client:
\* JSON.parse keeps every key the client sent.
ForgedFrame(f, who) ==
    [k \in DOMAIN f \cup {"username", "userId"} |->
        IF k \in {"username", "userId"} THEN who ELSE f[k]]

\* The valid frames of F that name a room id as it is stored and are not
\* encrypted.
PlainFrames(F) ==
    {f \in F \ InvalidFrames :
        f.roomId \in RoomIds /\ f.text \in {"hi", NonString} /\ ~f.isEncrypted}

PlainJoinFrames == PlainFrames(JoinFrames)

PlainSendFrames == PlainFrames(SendFrames)

PlainTypingFrames == PlainFrames(TypingFrames)

PlainReceiptFrames == PlainFrames(ReceiptFrames)

\* The frames of F, each with the identity of every user claimed in it.
ForgedFrames(F) == {ForgedFrame(f, who) : f \in F, who \in Users}

ForgedJoinFrames == ForgedFrames(PlainJoinFrames)

ForgedSendFrames == ForgedFrames(PlainSendFrames)

ForgedTypingFrames == ForgedFrames(PlainTypingFrames)

ForgedReceiptFrames == ForgedFrames(PlainReceiptFrames)

\* ----------------------------------------------------- services/rooms.js
\* Variant: every existing room is treated as public.
canJoinRoom_open(room, userId) == room.exists

\* Variant: the ban list is not consulted.
canJoinRoom_banIgnored(room, userId) ==
    IF ~room.exists THEN FALSE
    ELSE IF room.type = "public" THEN TRUE
    ELSE userId \in room.members

canJoinRoom(room, userId) ==
    IF ~room.exists THEN FALSE
    ELSE IF room.type = "public" THEN TRUE
    ELSE IF userId \in room.bannedMembers THEN FALSE
    ELSE userId \in room.members

\* ------------------------------------------------------ object allocation
\* Set objects still referenced by the rooms Map, a suspended handler or a
\* timer closure.
LiveSets ==
    {rooms[r] : r \in DOMAIN rooms}
    \cup {tasks[t].room : t \in DOMAIN tasks}
    \cup {cl[c].room : c \in Conns}
    \cup {timers[x].room : x \in DOMAIN timers}

FreeSets(r) == SetIdsOf(r) \ LiveSets

\* `new Set()` for room id r
NewSet(r) == CHOOSE s \in FreeSets(r) : \A x \in FreeSets(r) : s <= x

FreeTasks == {t \in DOMAIN tasks : tasks[t].pc = "idle"}

NewTask == CHOOSE t \in FreeTasks : \A x \in FreeTasks : t = "h1" \/ x # "h1"

\* The frame reaches ws.on('message'): the socket is open, the handlers are
\* registered, and the registry entry exists (`if (!meta) return`).
\* Variant: the listener is attached as soon as the socket is open.
Receives_early(c) == sock[c] = "open"

\* The 'message' listener of c is registered and its socket is open.
Receives(c) == sock[c] = "open" /\ hs[c] = "ready" /\ c \in socketMeta

\* ------------------------------------------------------- ws.on('message')
\* `roomId.startsWith('dm:') ? 'dm' : roomId`
\* Variant: the room id is shown as it is.
displayRoom_raw(r) == r

displayRoom(r) == IF r = PrivateRoom THEN "dm" ELSE r

joinedText(u, r) == u \o " joined " \o displayRoom(r)

ackText(r) == "Joined room " \o displayRoom(r)

msgUnchanged == << sockVars, hsVars, dbVars, socketMeta, metaUser, onlineUsers, cl >>

\* `if (!meta.rooms.has(roomId)) return; ... if (!room) return;`
\* Variant: only the rooms entry is looked at.
notSubscribed_roomOnly(c, r) == ~MapHas(rooms, r)

notSubscribed(c, r) == ~SeqHas(metaRooms[c], r) \/ ~MapHas(rooms, r)

\* A frame that arrives while the connection handler is still awaiting: the
\* 'message' listener is not registered yet and nobody hears the frame.
RecvEarly(c, f) ==
    /\ sock[c] = "open"
    /\ hs[c] \in {"resolve", "userdata", "online"}
    /\ out' = {}
    /\ calls' = {}
    /\ last' = Step("unheard", c, NoRoomId)
    /\ UNCHANGED << msgUnchanged, metaRooms, roomVars, typingVars, receiptVars, tasks, clientVars >>

\* A frame that parseClientMessage rejects.
RecvInvalid(c, f) ==
    /\ Receives(c)
    /\ parseClientMessage(f) = NullMsg
    /\ out' = sendEvent(sock, c, "ERR_ACK", NoRoomId, "Invalid message format", NoUser, "-")
    /\ calls' = {}
    /\ last' = Step("invalid", c, NoRoomId)
    /\ UNCHANGED << msgUnchanged, metaRooms, roomVars, typingVars, receiptVars, tasks, clientVars >>

\* JOIN_ROOM up to `await Room.findOne`.
RecvJoin(c, f) ==
    LET m == parseClientMessage(f)
    IN  /\ Receives(c)
        /\ m.type = "JOIN_ROOM"
        /\ FreeTasks # {}
        /\ tasks' = [tasks EXCEPT ![NewTask] =
                        [IdleTask EXCEPT !.pc = "join_find", !.conn = c,
                                         !.roomId = m.roomId, !.rec = roomDb[m.roomId]]]
        /\ out' = {}
        /\ calls' = {}
        /\ last' = Step("join_recv", c, m.roomId)
        /\ UNCHANGED << msgUnchanged, metaRooms, roomVars, typingVars, receiptVars, clientVars >>

\* JOIN_ROOM from the return of Room.findOne up to `await Room.updateOne`:
\* the two refusals, or the subscription.
JoinFound(t) ==
    LET c == tasks[t].conn
        r == tasks[t].roomId
        s == IF MapHas(rooms, r) THEN rooms[r] ELSE NewSet(r)
    IN  /\ tasks[t].pc = "join_find"
        /\ IF ~tasks[t].rec.exists
           THEN /\ out' = sendEvent(sock, c, "ERR_ACK", NoRoomId, "Room does not exist", NoUser, "-")
                /\ calls' = {}
                /\ tasks' = [tasks EXCEPT ![t] = IdleTask]
                /\ last' = Step("join_refused", c, r)
                /\ UNCHANGED << metaRooms, roomVars >>
           ELSE IF ~canJoinRoom(tasks[t].rec, metaUser[c])
           THEN /\ out' = sendEvent(sock, c, "ERR_ACK", NoRoomId, "Access denied", NoUser, "-")
                /\ calls' = {}
                /\ tasks' = [tasks EXCEPT ![t] = IdleTask]
                /\ last' = Step("join_refused", c, r)
                /\ UNCHANGED << metaRooms, roomVars >>
           ELSE /\ MapHas(rooms, r) \/ FreeSets(r) # {}
                /\ rooms' = MapSet(rooms, r, s)
                /\ heap' = [heap EXCEPT ![s] = (IF MapHas(rooms, r) THEN @ ELSE {}) \cup {c}]
                /\ metaRooms' = [metaRooms EXCEPT ![c] = SeqAdd(@, r)]
                /\ out' = {}
                /\ calls' = {Call("Room.updateOne", r, NoUser, "-", "updatedAt")}
                /\ tasks' = [tasks EXCEPT ![t].pc = "join_update"]
                /\ last' = Step("join_added", c, r)
        /\ UNCHANGED << msgUnchanged, typingVars, receiptVars, clientVars >>

\* JOIN_ROOM from the return of Room.updateOne up to `await persistMessage`:
\* the ACK, and `const room = rooms.get(roomId)`.
JoinUpdated(t) ==
    LET c == tasks[t].conn
        r == tasks[t].roomId
        u == metaUser[c]
    IN  /\ tasks[t].pc = "join_update"
        /\ out' = sendEvent(sock, c, "ACK", NoRoomId, ackText(r), NoUser, "-")
        /\ calls' = {Call("persist", r, u, "SYSTEM", joinedText(u, r))}
        /\ tasks' = [tasks EXCEPT ![t].pc = "join_persist",
                                  ![t].room = IF MapHas(rooms, r) THEN rooms[r] ELSE NoSet]
        /\ last' = Step("join_ack", c, r)
        /\ UNCHANGED << msgUnchanged, metaRooms, roomVars, typingVars, receiptVars, clientVars >>

\* JOIN_ROOM from the return (ok) or throw (~ok) of persistMessage: the join
\* notice goes to the Set object taken before the await.  Iterating an
\* undefined `room` throws, like a failed persist; either way the handler ends.
JoinPersisted(t, ok) ==
    LET c == tasks[t].conn
        r == tasks[t].roomId
        u == metaUser[c]
    IN  /\ tasks[t].pc = "join_persist"
        /\ out' = IF ok /\ tasks[t].room # NoSet
                  THEN Broadcast(sock, heap, tasks[t].room, "SYSTEM", r, joinedText(u, r), NoUser, "-")
                  ELSE {}
        /\ calls' = {}
        /\ tasks' = [tasks EXCEPT ![t] = IdleTask]
        /\ last' = Step(IF ok /\ tasks[t].room # NoSet THEN "join_notice" ELSE "join_abort", c, r)
        /\ UNCHANGED << msgUnchanged, metaRooms, roomVars, typingVars, receiptVars, clientVars >>

\* Variant: the joined-room set is not consulted.
RecvSend_anyRoom(c, f) ==
    LET m == parseClientMessage(f)
        r == m.roomId
        text == IF m.isEncrypted THEN m.text ELSE sanitizeMessage(m.text)
    IN  /\ Receives(c)
        /\ m.type = "SEND_MESSAGE"
        /\ IF ~MapHas(rooms, r)
           THEN /\ out' = {}
                /\ calls' = {}
                /\ last' = Step("send_dropped", c, r)
                /\ UNCHANGED tasks
           ELSE IF text = ""
           THEN /\ out' = sendEvent(sock, c, "ERR_ACK", NoRoomId, "Invalid message content", NoUser, "-")
                /\ calls' = {}
                /\ last' = Step("send_refused", c, NoRoomId)
                /\ UNCHANGED tasks
           ELSE /\ FreeTasks # {}
                /\ out' = {}
                /\ calls' = {Call("Room.updateOne", r, NoUser, "-", "updatedAt")}
                /\ tasks' = [tasks EXCEPT ![NewTask] =
                                [IdleTask EXCEPT !.pc = "send_update", !.conn = c, !.roomId = r,
                                                 !.text = text, !.room = rooms[r]]]
                /\ last' = Step("send_recv", c, r)
        /\ UNCHANGED << msgUnchanged, metaRooms, roomVars, typingVars, receiptVars, clientVars >>

\* SEND_MESSAGE up to `await Room.updateOne`: dropped when the room is not in
\* meta.rooms or has no rooms entry, refused when the text sanitises to
\* nothing.
RecvSend(c, f) ==
    LET m == parseClientMessage(f)
        r == m.roomId
        text == IF m.isEncrypted THEN m.text ELSE sanitizeMessage(m.text)
    IN  /\ Receives(c)
        /\ m.type = "SEND_MESSAGE"
        /\ IF notSubscribed(c, r)
           THEN /\ out' = {}
                /\ calls' = {}
                /\ last' = Step("send_dropped", c, r)
                /\ UNCHANGED tasks
           ELSE IF text = ""
           THEN /\ out' = sendEvent(sock, c, "ERR_ACK", NoRoomId, "Invalid message content", NoUser, "-")
                /\ calls' = {}
                /\ last' = Step("send_refused", c, NoRoomId)
                /\ UNCHANGED tasks
           ELSE /\ FreeTasks # {}
                /\ out' = {}
                /\ calls' = {Call("Room.updateOne", r, NoUser, "-", "updatedAt")}
                /\ tasks' = [tasks EXCEPT ![NewTask] =
                                [IdleTask EXCEPT !.pc = "send_update", !.conn = c, !.roomId = r,
                                                 !.text = text, !.room = rooms[r]]]
                /\ last' = Step("send_recv", c, r)
        /\ UNCHANGED << msgUnchanged, metaRooms, roomVars, typingVars, receiptVars, clientVars >>

\* SEND_MESSAGE from the return of Room.updateOne up to `await persistMessage`.
SendUpdated(t) ==
    LET c == tasks[t].conn
        r == tasks[t].roomId
    IN  /\ tasks[t].pc = "send_update"
        /\ out' = {}
        /\ calls' = {Call("persist", r, metaUser[c], "ROOM_MESSAGE", tasks[t].text)}
        /\ tasks' = [tasks EXCEPT ![t].pc = "send_persist"]
        /\ last' = Step("send_persist", c, r)
        /\ UNCHANGED << msgUnchanged, metaRooms, roomVars, typingVars, receiptVars, clientVars >>

\* SEND_MESSAGE from the return (ok) or throw (~ok) of persistMessage: the
\* ROOM_MESSAGE goes to the Set object taken when the frame arrived.
SendPersisted(t, ok) ==
    LET c == tasks[t].conn
        r == tasks[t].roomId
    IN  /\ tasks[t].pc = "send_persist"
        /\ out' = IF ok
                  THEN Broadcast(sock, heap, tasks[t].room, "ROOM_MESSAGE", r, tasks[t].text,
                                 metaUser[c], "-")
                  ELSE {}
        /\ calls' = {}
        /\ tasks' = [tasks EXCEPT ![t] = IdleTask]
        /\ last' = Step(IF ok THEN "send_broadcast" ELSE "send_abort", c, r)
        /\ UNCHANGED << msgUnchanged, metaRooms, roomVars, typingVars, receiptVars, clientVars >>

\* Timer handles in use: pending, or still stored in typingTimers.
UsedTimers(tt, tm) ==
    (DOMAIN tm) \cup UNION {{tt[r][u] : u \in DOMAIN tt[r]} : r \in DOMAIN tt}

\* scheduleTypingTimeout(roomId, userId, onTimeout): the timeout stored for the
\* user is cleared, a new one is set and stored under the user's key.  The
\* closure keeps the room id, the user and the Set object `room`.
scheduleTypingMap(tt, r, u, x) ==
    MapSet(tt, r, MapSet(IF MapHas(tt, r) THEN tt[r] ELSE EmptyMap, u, x))

scheduleTypingTimers(tt, tm, r, u, x, s) ==
    MapSet(stopTypingTimers(tt, tm, r, u), x, [roomId |-> r, user |-> u, room |-> s])

\* TYPING: synchronous.  Dropped when the room is not in meta.rooms or has no
\* rooms entry; otherwise the timer is armed or cancelled and the state is
\* broadcast to the room.
RecvTyping(c, f) ==
    LET m == parseClientMessage(f)
        r == m.roomId
        u == metaUser[c]
        free == TimerIds \ UsedTimers(stopTypingMap(typingTimers, r, u),
                                      stopTypingTimers(typingTimers, timers, r, u))
        x == CHOOSE i \in free : \A j \in free : i <= j
    IN  /\ Receives(c)
        /\ m.type = "TYPING"
        /\ IF notSubscribed(c, r)
           THEN /\ out' = {}
                /\ last' = Step("typing_dropped", c, r)
                /\ UNCHANGED typingVars
           ELSE /\ IF m.isTyping = "true"
                   THEN /\ free # {}
                        /\ typingTimers' = scheduleTypingMap(typingTimers, r, u, x)
                        /\ timers' = scheduleTypingTimers(typingTimers, timers, r, u, x, rooms[r])
                        /\ last' = Step("typing_on", c, r)
                   ELSE /\ typingTimers' = stopTypingMap(typingTimers, r, u)
                        /\ timers' = stopTypingTimers(typingTimers, timers, r, u)
                        /\ last' = Step("typing_off", c, r)
                /\ out' = Broadcast(sock, heap, rooms[r], "TYPING", r, NoText, u, m.isTyping)
        /\ calls' = {}
        /\ UNCHANGED << msgUnchanged, metaRooms, roomVars, receiptVars, tasks, clientVars >>

\* Variant: the callback is registered with a repeating timer, so the handle
\* stays pending after it has fired.
TimerFire_interval(x) ==
    /\ MapHas(timers, x)
    /\ typingTimers' = typingTimers
    /\ timers' = timers
    /\ out' = Broadcast(sock, heap, timers[x].room, "TYPING", timers[x].roomId, NoText,
                        timers[x].user, "false")
    /\ calls' = {}
    /\ last' = Step("typing_expired", NoConn, timers[x].roomId)
    /\ UNCHANGED << msgUnchanged, metaRooms, roomVars, receiptVars, tasks, clientVars >>

\* The 4000 ms timeout of handle x fires: the user's key leaves the room's
\* typing map (the map leaves typingTimers when empty) and onTimeout
\* broadcasts isTyping=false to the Set object the closure holds.
TimerFire(x) ==
    /\ MapHas(timers, x)
    /\ typingTimers' = stopTypingMap(typingTimers, timers[x].roomId, timers[x].user)
    /\ timers' = MapDelete(timers, x)
    /\ out' = Broadcast(sock, heap, timers[x].room, "TYPING", timers[x].roomId, NoText,
                        timers[x].user, "false")
    /\ calls' = {}
    /\ last' = Step("typing_expired", NoConn, timers[x].roomId)
    /\ UNCHANGED << msgUnchanged, metaRooms, roomVars, receiptVars, tasks, clientVars >>

\* Variant: a value already stored for the user is kept.
updateReadReceipt_keepFirst(rr, r, u, t) ==
    IF MapHas(rr, r) /\ MapHas(rr[r], u) THEN rr
    ELSE MapSet(rr, r, MapSet(IF MapHas(rr, r) THEN rr[r] ELSE EmptyMap, u, t))

\* updateReadReceipt(roomId, userId) with Date.now() = t
updateReadReceipt(rr, r, u, t) ==
    MapSet(rr, r, MapSet(IF MapHas(rr, r) THEN rr[r] ELSE EmptyMap, u, t))

\* Variant: the sender name is taken from the inbound payload when the
\* payload carries one.
RecvReceipt_trusting(c, f, t1, t2) ==
    LET m == parseClientMessage(f)
        r == m.roomId
        u == IF "username" \in DOMAIN f THEN f.username ELSE metaUser[c]
    IN  /\ Receives(c)
        /\ m.type = "READ_RECEIPT"
        /\ IF notSubscribed(c, r)
           THEN /\ t1 = now /\ t2 = now
                /\ out' = {}
                /\ last' = Step("receipt_dropped", c, r)
                /\ UNCHANGED receiptVars
           ELSE /\ now <= t1 /\ t1 <= t2 /\ t2 <= MaxClock
                /\ readReceipts' = updateReadReceipt(readReceipts, r, u, t1)
                /\ now' = t2
                /\ out' = {[fr EXCEPT !.timestamp = t2] :
                             fr \in Broadcast(sock, heap, rooms[r], "READ_RECEIPT", r, NoText, u, "-")}
                /\ last' = Step("receipt", c, r)
        /\ calls' = {}
        /\ UNCHANGED << msgUnchanged, metaRooms, roomVars, typingVars, tasks, clientVars >>

\* READ_RECEIPT: synchronous.  t1 and t2 are the two values of Date.now(),
\* the one stored and the one broadcast; the clock never goes back and
\* stops at MaxClock.
RecvReceipt(c, f, t1, t2) ==
    LET m == parseClientMessage(f)
        r == m.roomId
        u == metaUser[c]
    IN  /\ Receives(c)
        /\ m.type = "READ_RECEIPT"
        /\ IF notSubscribed(c, r)
           THEN /\ t1 = now /\ t2 = now
                /\ out' = {}
                /\ last' = Step("receipt_dropped", c, r)
                /\ UNCHANGED receiptVars
           ELSE /\ now <= t1 /\ t1 <= t2 /\ t2 <= MaxClock
                /\ readReceipts' = updateReadReceipt(readReceipts, r, u, t1)
                /\ now' = t2
                /\ out' = {[fr EXCEPT !.timestamp = t2] :
                             fr \in Broadcast(sock, heap, rooms[r], "READ_RECEIPT", r, NoText, u, "-")}
                /\ last' = Step("receipt", c, r)
        /\ calls' = {}
        /\ UNCHANGED << msgUnchanged, metaRooms, roomVars, typingVars, tasks, clientVars >>

\* ------------------------------------- routes/rooms.js: kick and ban
removedText(target, actor, ban) ==
    target \o (IF ban THEN " was banned by " ELSE " was removed by ") \o actor

\* services/rooms.removeUserFromRoom(roomId, userId): the sockets it removes.
removedSockets(r, userId) ==
    IF ~MapHas(rooms, r) THEN {}
    ELSE {c \in heap[rooms[r]] : c \in socketMeta /\ metaUser[c] = userId}

\* POST /rooms/:roomId/kick (ban = FALSE) or /ban (ban = TRUE) up to
\* `await Room.updateOne`: the caller owns the private room and names
\* another existing user.
KickStart(actor, r, target, ban) ==
    /\ FreeTasks # {}
    /\ \E tok \in DOMAIN sessions : resolveAuthenticatedIdentity(sessions, tok) = actor
    /\ roomDb[r].exists
    /\ roomDb[r].type = "private"
    /\ roomDb[r].createdBy = actor
    /\ target \in UserDb
    /\ target # actor
    /\ tasks' = [tasks EXCEPT ![NewTask] =
                    [IdleTask EXCEPT !.pc = "kick_update", !.roomId = r, !.actor = actor,
                                     !.target = target, !.ban = ban]]
    /\ out' = {}
    /\ calls' = {Call("Room.updateOne", r, target, "-", IF ban THEN "ban" ELSE "kick")}
    /\ last' = Step("kick_recv", NoConn, r)
    /\ UNCHANGED << msgUnchanged, metaRooms, roomVars, typingVars, receiptVars, clientVars >>

\* Room.updateOne returns: the member is pulled (and banned), then
\* removeUserFromRoom runs, then persistMessage is awaited.
KickUpdated(t) ==
    LET r == tasks[t].roomId
        target == tasks[t].target
        gone == removedSockets(r, target)
    IN  /\ tasks[t].pc = "kick_update"
        /\ roomDb' = [roomDb EXCEPT
                        ![r].members = @ \ {target},
                        ![r].bannedMembers = IF tasks[t].ban THEN @ \cup {target} ELSE @]
        /\ metaRooms' = [c \in Conns |->
                            IF c \in gone THEN SeqDelete(metaRooms[c], r) ELSE metaRooms[c]]
        /\ cl' = [c \in Conns |->
                     IF c \in gone THEN [cl[c] EXCEPT !.visited = @ \ {r}] ELSE cl[c]]
        /\ IF MapHas(rooms, r)
           THEN /\ heap' = [heap EXCEPT ![rooms[r]] = @ \ gone]
                /\ rooms' = IF heap[rooms[r]] \ gone = {} THEN MapDelete(rooms, r) ELSE rooms
           ELSE UNCHANGED roomVars
        /\ out' = {}
        /\ calls' = {Call("persist", r, tasks[t].actor, "SYSTEM",
                          removedText(target, tasks[t].actor, tasks[t].ban))}
        /\ tasks' = [tasks EXCEPT ![t].pc = "kick_persist"]
        /\ last' = Step("kick_removed", NoConn, r)
        /\ UNCHANGED << sockVars, hsVars, sessions, userStatus, socketMeta, metaUser,
                        onlineUsers, typingVars, receiptVars, clientVars >>

\* persistMessage returns (ok) or throws (~ok, answered with 500): the
\* removal notice goes to the room's current Set object, if there is one.
KickPersisted(t, ok) ==
    LET r == tasks[t].roomId
    IN  /\ tasks[t].pc = "kick_persist"
        /\ out' = IF ok /\ MapHas(rooms, r)
                  THEN Broadcast(sock, heap, rooms[r], "SYSTEM", r,
                                 removedText(tasks[t].target, tasks[t].actor, tasks[t].ban),
                                 NoUser, "-")
                  ELSE {}
        /\ calls' = {}
        /\ tasks' = [tasks EXCEPT ![t] = IdleTask]
        /\ last' = Step(IF ok THEN "kick_notice" ELSE "kick_abort", NoConn, r)
        /\ UNCHANGED << msgUnchanged, metaRooms, roomVars, typingVars, receiptVars, clientVars >>

\* ------------------------------------------------- routes/auth.js: /logout
\* POST /logout up to its await: the token is read from the request (401
\* when there is none) and Session.deleteOne is issued.
LogoutStart(t, tok) ==
    /\ tasks[t].pc = "idle"
    /\ tok # NoToken
    /\ tasks' = [tasks EXCEPT ![t] = [IdleTask EXCEPT !.pc = "logout_delete", !.text = tok]]
    /\ out' = {}
    /\ calls' = {Call("Session.deleteOne", NoRoomId, NoUser, "-", tok)}
    /\ last' = Step("logout_start", NoConn, NoRoomId)
    /\ UNCHANGED << sockVars, hsVars, dbVars, metaVars, roomVars, onlineUsers,
                    typingVars, receiptVars, cl, clientVars >>

\* The registered sockets whose meta.token is the revoked token; close() on
\* a socket that is already closing or closed does nothing.
revokedSockets(tok) == {c \in socketMeta : hsToken[c] = tok /\ sock[c] = "open"}

\* Session.deleteOne returns: every socket of the registry bound to the
\* token is closed with 1008, then the route answers 200.
LogoutDeleted(t) ==
    /\ tasks[t].pc = "logout_delete"
    /\ LET tok == tasks[t].text
       IN  /\ sessions' = IF MapHas(sessions, tok) THEN MapDelete(sessions, tok) ELSE sessions
           /\ sock' = [c \in Conns |-> IF c \in revokedSockets(tok) THEN "closed" ELSE sock[c]]
           /\ closeCode' = [c \in Conns |-> IF c \in revokedSockets(tok)
                                            THEN CloseUnauthorized ELSE closeCode[c]]
    /\ tasks' = [tasks EXCEPT ![t] = IdleTask]
    /\ out' = {}
    /\ calls' = {}
    /\ last' = Step("logout_done", NoConn, NoRoomId)
    /\ UNCHANGED << hsVars, userStatus, roomDb, metaVars, roomVars, onlineUsers,
                    typingVars, receiptVars, cl, clientVars >>

UnheardClose == [pc |-> "unheard", visited |-> {}, roomId |-> NoRoomId, room |-> NoSet]

\* The 'close' event of a socket the server closed at logout.  The close
\* handler runs when the connection handler has registered it by then; an
\* event emitted before ws.on('close') is heard by nobody.
CloseRevoked(c) ==
    /\ sock[c] = "closed"
    /\ closeCode[c] = CloseUnauthorized
    /\ c \in socketMeta
    /\ cl[c].pc = "none"
    /\ last' = Step("close", c, NoRoomId)
    /\ IF hs[c] # "ready"
       THEN /\ cl' = [cl EXCEPT ![c] = UnheardClose]
            /\ out' = {}
            /\ calls' = {}
            /\ UNCHANGED << socketMeta, onlineUsers, typingVars >>
       ELSE LET u == metaUser[c]
                userSockets == IF MapHas(onlineUsers, u) THEN onlineUsers[u] \ {c} ELSE {}
            IN  IF MapHas(onlineUsers, u) /\ userSockets = {}
                THEN /\ onlineUsers' = MapDelete(onlineUsers, u)
                     /\ calls' = {Call("User.updateOne", NoRoomId, u, "-", "offline")}
                     /\ out' = {}
                     /\ cl' = [cl EXCEPT ![c] = [NoClose EXCEPT !.pc = "offline"]]
                     /\ UNCHANGED << socketMeta, typingVars >>
                ELSE /\ onlineUsers' = IF MapHas(onlineUsers, u)
                                       THEN MapSet(onlineUsers, u, userSockets)
                                       ELSE onlineUsers
                     /\ CloseLoop(c, {}, rooms, heap, sock, {}, {})
    /\ UNCHANGED << sockVars, hsVars, dbVars, metaUser, metaRooms, roomVars,
                    receiptVars, tasks, clientVars >>

\* ------------------------------------------ chat-frontend/src/App.jsx: client
\* Everything of the server, which no step of the client touches.
serverVars == << sockVars, hsVars, dbVars, metaVars, roomVars, onlineUsers,
                 typingVars, receiptVars, tasks, cl, out, calls >>

BaseDelayMs == 1000
MaxDelayMs == 30000

\* Variant: the backoff has no ceiling.
reconnectDelay_uncapped(attempts) == BaseDelayMs * 2^attempts

\* Math.min(1000 * Math.pow(2, attempts), 30000)
reconnectDelay(attempts) ==
    IF BaseDelayMs * 2^attempts < MaxDelayMs THEN BaseDelayMs * 2^attempts ELSE MaxDelayMs

\* Handles setTimeout can return: the browser does not hand out again the
\* handle of a timer that is pending or has just fired.
FreeClientTimers(tms) == ClientTimerIds \ (DOMAIN clientTimers \cup DOMAIN tms)

NewClientTimer(tms) == CHOOSE x \in FreeClientTimers(tms) : \A y \in FreeClientTimers(tms) : x <= y

FreeSockets == {s \in ClientSockets : wsState[s] = "none"}

NewSocket == CHOOSE s \in FreeSockets : \A x \in FreeSockets : s <= x

\* Variant: a reconnect is scheduled even while reconnectTimeoutRef holds a
\* pending handle.
attemptReconnect_noGuard(ref, tms, status) ==
    IF ~shouldReconnectRef \/ sessionTokenRef = NoToken
    THEN /\ reconnectTimeoutRef' = ref
         /\ clientTimers' = tms
         /\ connectionStatus' = status
         /\ UNCHANGED reconnectAttemptsRef
    ELSE /\ reconnectAttemptsRef < MaxAttempts
         /\ FreeClientTimers(tms) # {}
         /\ reconnectTimeoutRef' = NewClientTimer(tms)
         /\ clientTimers' = MapSet(tms, NewClientTimer(tms), reconnectDelay(reconnectAttemptsRef))
         /\ reconnectAttemptsRef' = reconnectAttemptsRef + 1
         /\ connectionStatus' = "reconnecting"

\* attemptReconnect.  ref, tms: reconnectTimeoutRef.current and the pending
\* timeouts as the caller left them; status: the connectionStatus the caller
\* set.  The counter stops at MaxAttempts.
attemptReconnect(ref, tms, status) ==
    IF ~shouldReconnectRef \/ sessionTokenRef = NoToken \/ ref # NoTimer
    THEN /\ reconnectTimeoutRef' = ref
         /\ clientTimers' = tms
         /\ connectionStatus' = status
         /\ UNCHANGED reconnectAttemptsRef
    ELSE /\ reconnectAttemptsRef < MaxAttempts
         /\ FreeClientTimers(tms) # {}
         /\ reconnectTimeoutRef' = NewClientTimer(tms)
         /\ clientTimers' = MapSet(tms, NewClientTimer(tms), reconnectDelay(reconnectAttemptsRef))
         /\ reconnectAttemptsRef' = reconnectAttemptsRef + 1
         /\ connectionStatus' = "reconnecting"

\* connectWebSocket.  throws: `new WebSocket(url)` throws, and the catch
\* calls attemptReconnect.
connectWebSocket(ref, tms, throws) ==
    IF sessionTokenRef = NoToken
    THEN /\ connectionStatus' = "disconnected"
         /\ reconnectTimeoutRef' = ref
         /\ clientTimers' = tms
         /\ UNCHANGED << socketRef, wsState, reconnectAttemptsRef >>
    ELSE IF socketRef # NoSocket /\ wsState[socketRef] \in {"open", "connecting"}
    THEN /\ reconnectTimeoutRef' = ref
         /\ clientTimers' = tms
         /\ UNCHANGED << socketRef, wsState, reconnectAttemptsRef, connectionStatus >>
    ELSE IF throws
    THEN /\ attemptReconnect(ref, tms, "error")
         /\ UNCHANGED << socketRef, wsState >>
    ELSE /\ FreeSockets # {}
         /\ socketRef' = NewSocket
         /\ wsState' = [wsState EXCEPT ![NewSocket] = "connecting"]
         /\ connectionStatus' = "connecting"
         /\ reconnectTimeoutRef' = ref
         /\ clientTimers' = tms
         /\ UNCHANGED reconnectAttemptsRef

\* WebSocket.close(): an open or connecting socket starts closing.
wsClientClose(ws, s) ==
    IF s # NoSocket /\ ws[s] \in {"open", "connecting"} THEN [ws EXCEPT ![s] = "closing"] ELSE ws

\* Room ids the user of the client opens.
ClientRooms == {PublicRoom}

JoinSent(s, r) == [socket |-> s, roomId |-> r]

\* joinRoom sends on socketRef.current, and only when that socket is OPEN.
canSendJoin(ws) == socketRef # NoSocket /\ ws[socketRef] = "open"

\* rejoinAllRooms: joinRoom(id, { force: true }) for every joined room id.
\* ws: the readyState of the sockets when it runs.
rejoinAllRooms(ws) ==
    IF canSendJoin(ws) THEN {JoinSent(socketRef, r) : r \in joinedRoomsRef} ELSE {}

\* joinRoom(id), the user opening a room: nothing without an OPEN socket in
\* socketRef, nothing for a room already joined.
JoinRoom(r) ==
    /\ lifecycle = "mounted"
    /\ userSet
    /\ canSendJoin(wsState)
    /\ r \notin joinedRoomsRef
    /\ sent' = {JoinSent(socketRef, r)}
    /\ joinedRoomsRef' = joinedRoomsRef \cup {r}
    /\ last' = Step("client_join", NoConn, r)
    /\ UNCHANGED << lifecycle, storedToken, sessionTokenRef, shouldReconnectRef, userSet,
                    socketRef, wsState, reconnectTimeoutRef, reconnectAttemptsRef,
                    clientTimers, hasConnectedRef, connectionStatus, pending, serverVars >>

\* The mount effect.  stored: the token localStorage holds; with a stored
\* session the token is taken over and fetchRooms is started.
Mount(stored) ==
    /\ lifecycle = "new"
    /\ lifecycle' = "mounted"
    /\ storedToken' = stored
    /\ shouldReconnectRef' = TRUE
    /\ IF stored # NoToken
       THEN /\ sessionTokenRef' = stored
            /\ userSet' = TRUE
            /\ pending' = pending \cup {"mount_fetch"}
       ELSE UNCHANGED << sessionTokenRef, userSet, pending >>
    /\ last' = Step("mount", NoConn, NoRoomId)
    /\ UNCHANGED << socketRef, wsState, reconnectTimeoutRef, reconnectAttemptsRef,
                    clientTimers, hasConnectedRef, connectionStatus, serverVars >>
    /\ sent' = {}
    /\ UNCHANGED joinedRoomsRef

\* fetchRooms(storedToken) of the mount effect resolves: connectWebSocket().
MountFetched(throws) ==
    /\ "mount_fetch" \in pending
    /\ pending' = pending \ {"mount_fetch"}
    /\ connectWebSocket(reconnectTimeoutRef, clientTimers, throws)
    /\ last' = Step("mount_fetched", NoConn, NoRoomId)
    /\ UNCHANGED << lifecycle, storedToken, sessionTokenRef, shouldReconnectRef, userSet,
                    hasConnectedRef, serverVars >>
    /\ sent' = {}
    /\ UNCHANGED joinedRoomsRef

\* The cleanup of the mount effect.
Unmount ==
    /\ lifecycle = "mounted"
    /\ lifecycle' = "unmounted"
    /\ shouldReconnectRef' = FALSE
    /\ reconnectTimeoutRef' = NoTimer
    /\ clientTimers' = IF reconnectTimeoutRef # NoTimer /\ MapHas(clientTimers, reconnectTimeoutRef)
                       THEN MapDelete(clientTimers, reconnectTimeoutRef) ELSE clientTimers
    /\ wsState' = wsClientClose(wsState, socketRef)
    /\ last' = Step("unmount", NoConn, NoRoomId)
    /\ UNCHANGED << storedToken, sessionTokenRef, userSet, socketRef, reconnectAttemptsRef,
                    hasConnectedRef, connectionStatus, pending, serverVars >>
    /\ sent' = {}
    /\ UNCHANGED joinedRoomsRef

\* loginUser up to the fetch of POST /login; the auth page is shown only
\* while userSet is false and takes one submit at a time.
LoginStart ==
    /\ lifecycle = "mounted"
    /\ ~userSet
    /\ pending \cap {"login", "login_fetch"} = {}
    /\ pending' = pending \cup {"login"}
    /\ last' = Step("login_start", NoConn, NoRoomId)
    /\ UNCHANGED << lifecycle, storedToken, sessionTokenRef, shouldReconnectRef, userSet,
                    socketRef, wsState, reconnectTimeoutRef, reconnectAttemptsRef,
                    clientTimers, hasConnectedRef, connectionStatus, serverVars >>
    /\ sent' = {}
    /\ UNCHANGED joinedRoomsRef

\* POST /login answers.  ok: the session is taken over and stored and
\* fetchRooms is awaited; otherwise the catch clears the session.
LoginResponse(ok) ==
    /\ "login" \in pending
    /\ IF ok
       THEN /\ sessionTokenRef' = "tokA"
            /\ storedToken' = "tokA"
            /\ userSet' = TRUE
            /\ pending' = (pending \ {"login"}) \cup {"login_fetch"}
            /\ UNCHANGED connectionStatus
       ELSE /\ sessionTokenRef' = NoToken
            /\ storedToken' = NoToken
            /\ userSet' = FALSE
            /\ connectionStatus' = "disconnected"
            /\ pending' = pending \ {"login"}
    /\ last' = Step(IF ok THEN "login_ok" ELSE "login_failed", NoConn, NoRoomId)
    /\ UNCHANGED << lifecycle, shouldReconnectRef, socketRef, wsState, reconnectTimeoutRef,
                    reconnectAttemptsRef, clientTimers, hasConnectedRef, serverVars >>
    /\ joinedRoomsRef' = (IF ok THEN {} ELSE joinedRoomsRef)
    /\ sent' = {}

\* fetchRooms(body.token) of loginUser returns: connectWebSocket().
LoginFetched(throws) ==
    /\ "login_fetch" \in pending
    /\ pending' = pending \ {"login_fetch"}
    /\ connectWebSocket(reconnectTimeoutRef, clientTimers, throws)
    /\ last' = Step("login_fetched", NoConn, NoRoomId)
    /\ UNCHANGED << lifecycle, storedToken, sessionTokenRef, shouldReconnectRef, userSet,
                    hasConnectedRef, serverVars >>
    /\ sent' = {}
    /\ UNCHANGED joinedRoomsRef

\* logoutUser, from the Logout button of the chat page: nothing of the
\* client changes after its fetch of POST /logout.
LogoutUser ==
    /\ lifecycle = "mounted"
    /\ userSet
    /\ sessionTokenRef' = NoToken
    /\ storedToken' = NoToken
    /\ userSet' = FALSE
    /\ connectionStatus' = "disconnected"
    /\ wsState' = wsClientClose(wsState, socketRef)
    /\ socketRef' = NoSocket
    /\ last' = Step("logout_user", NoConn, NoRoomId)
    /\ UNCHANGED << lifecycle, shouldReconnectRef, reconnectTimeoutRef, reconnectAttemptsRef,
                    clientTimers, hasConnectedRef, pending, serverVars >>
    /\ joinedRoomsRef' = {}
    /\ sent' = {}

\* ws.onopen
WsOpen(s) ==
    /\ wsState[s] = "connecting"
    /\ wsState' = [wsState EXCEPT ![s] = "open"]
    /\ connectionStatus' = "connected"
    /\ reconnectAttemptsRef' = 0
    /\ reconnectTimeoutRef' = NoTimer
    /\ clientTimers' = IF reconnectTimeoutRef # NoTimer /\ MapHas(clientTimers, reconnectTimeoutRef)
                       THEN MapDelete(clientTimers, reconnectTimeoutRef) ELSE clientTimers
    /\ hasConnectedRef' = TRUE
    /\ last' = Step("ws_open", NoConn, NoRoomId)
    /\ UNCHANGED << lifecycle, storedToken, sessionTokenRef, shouldReconnectRef, userSet,
                    socketRef, pending, serverVars >>
    /\ sent' = (IF hasConnectedRef THEN rejoinAllRooms(wsState') ELSE {})
    /\ UNCHANGED joinedRoomsRef

\* ws.onerror: the connection failed; the close event follows.
WsError(s) ==
    /\ wsState[s] \in {"connecting", "open"}
    /\ wsState' = [wsState EXCEPT ![s] = "closing"]
    /\ connectionStatus' = "error"
    /\ last' = Step("ws_error", NoConn, NoRoomId)
    /\ UNCHANGED << lifecycle, storedToken, sessionTokenRef, shouldReconnectRef, userSet,
                    socketRef, reconnectTimeoutRef, reconnectAttemptsRef, clientTimers,
                    hasConnectedRef, pending, serverVars >>
    /\ sent' = {}
    /\ UNCHANGED joinedRoomsRef

\* ws.onclose of any socket the client made.
WsClose(s) ==
    /\ wsState[s] \in {"connecting", "open", "closing"}
    /\ wsState' = [wsState EXCEPT ![s] = "none"]
    /\ socketRef' = NoSocket
    /\ attemptReconnect(reconnectTimeoutRef, clientTimers, "disconnected")
    /\ last' = Step("ws_close", NoConn, NoRoomId)
    /\ UNCHANGED << lifecycle, storedToken, sessionTokenRef, shouldReconnectRef, userSet,
                    hasConnectedRef, pending, serverVars >>
    /\ sent' = {}
    /\ UNCHANGED joinedRoomsRef

\* The callback of a reconnect timeout.
ReconnectTimerFired(x, throws) ==
    /\ MapHas(clientTimers, x)
    /\ connectWebSocket(NoTimer, MapDelete(clientTimers, x), throws)
    /\ last' = Step("reconnect_fired", NoConn, NoRoomId)
    /\ UNCHANGED << lifecycle, storedToken, sessionTokenRef, shouldReconnectRef, userSet,
                    hasConnectedRef, pending, serverVars >>
    /\ sent' = {}
    /\ UNCHANGED joinedRoomsRef

\* ------------------------------------------------------------------- Next
\* The life of a connection: handshake, joins, close.
Next ==
    \/ \E c \in Conns, tok \in RawTokens : Connect(c, tok)
    \/ \E c \in Conns : ConnResolved(c)
    \/ \E c \in Conns : ConnUserData(c)
    \/ \E c \in Conns : ConnOnline(c)
    \/ \E c \in Conns, f \in OtherFrames \cup JoinFrames : RecvEarly(c, f)
    \/ \E c \in Conns, f \in OtherFrames : RecvInvalid(c, f)
    \/ \E c \in Conns, f \in JoinFrames \ InvalidFrames : RecvJoin(c, f)
    \/ \E t \in DOMAIN tasks : JoinFound(t)
    \/ \E t \in DOMAIN tasks : JoinUpdated(t)
    \/ \E t \in DOMAIN tasks, ok \in BOOLEAN : JoinPersisted(t, ok)
    \/ \E c \in Conns : Close(c)
    \/ \E c \in Conns : CloseOffline(c)
    \/ \E c \in Conns, ok \in BOOLEAN : ClosePersisted(c, ok)

Spec == Init /\ [][Next]_vars

\* ----------------------------------------------- the room engine, in session
\* Both connections have been through the connection handler: c1 as alice
\* (the owner of the private room), c2 as bob.
InitReady ==
    /\ sock = [c \in Conns |-> "open"]
    /\ closeCode = [c \in Conns |-> 0]
    /\ hs = [c \in Conns |-> "ready"]
    /\ hsUser = [c \in Conns |-> IF c = "c1" THEN "alice" ELSE "bob"]
    /\ hsToken = [c \in Conns |-> IF c = "c1" THEN "tokA" ELSE "tokB"]
    /\ sessions = InitSessions
    /\ userStatus = [u \in UserDb |-> "online"]
    /\ roomDb = InitRoomDb
    /\ socketMeta = Conns
    /\ metaUser = [c \in Conns |-> IF c = "c1" THEN "alice" ELSE "bob"]
    /\ metaRooms = [c \in Conns |-> << >>]
    /\ rooms = EmptyMap
    /\ heap = [s \in SetIds |-> {}]
    /\ onlineUsers = [u \in Users |-> IF u = "alice" THEN {"c1"} ELSE {"c2"}]
    /\ typingTimers = EmptyMap
    /\ timers = EmptyMap
    /\ readReceipts = EmptyMap
    /\ now = 0
    /\ tasks = [t \in {"h1"} |-> IdleTask]
    /\ cl = [c \in Conns |-> NoClose]
    /\ out = {}
    /\ calls = {}
    /\ last = Step("init", NoConn, NoRoomId)
    /\ ClientIdle

\* Joins, closes and moderation.
NextRooms ==
    \/ \E c \in Conns : Close(c)
    \/ \E c \in Conns : CloseOffline(c)
    \/ \E c \in Conns, ok \in BOOLEAN : ClosePersisted(c, ok)
    \/ \E c \in Conns, f \in JoinFrames \ InvalidFrames : RecvJoin(c, f)
    \/ \E t \in DOMAIN tasks : JoinFound(t)
    \/ \E t \in DOMAIN tasks : JoinUpdated(t)
    \/ \E t \in DOMAIN tasks, ok \in BOOLEAN : JoinPersisted(t, ok)
    \/ \E a, u \in Users, r \in RoomIds, ban \in BOOLEAN : KickStart(a, r, u, ban)
    \/ \E t \in DOMAIN tasks : KickUpdated(t)
    \/ \E t \in DOMAIN tasks, ok \in BOOLEAN : KickPersisted(t, ok)

SpecRooms == InitReady /\ [][NextRooms]_vars

\* Frame validation, joins and messages; no moderation, no closes.
NextFrames ==
    \/ \E c \in Conns, f \in InvalidFrames : RecvInvalid(c, f)
    \/ \E c \in Conns, f \in JoinFrames \ InvalidFrames : RecvJoin(c, f)
    \/ \E t \in DOMAIN tasks : JoinFound(t)
    \/ \E t \in DOMAIN tasks : JoinUpdated(t)
    \/ \E t \in DOMAIN tasks, ok \in BOOLEAN : JoinPersisted(t, ok)
    \/ \E c \in Conns, f \in SendFrames \ InvalidFrames : RecvSend(c, f)
    \/ \E t \in DOMAIN tasks : SendUpdated(t)
    \/ \E t \in DOMAIN tasks, ok \in BOOLEAN : SendPersisted(t, ok)

SpecFrames == InitReady /\ [][NextFrames]_vars

\* Both connections in session and subscribed: c1 (alice) to the public and
\* the private room, c2 (bob) to the public room only.
InitJoined ==
    /\ sock = [c \in Conns |-> "open"]
    /\ closeCode = [c \in Conns |-> 0]
    /\ hs = [c \in Conns |-> "ready"]
    /\ hsUser = [c \in Conns |-> IF c = "c1" THEN "alice" ELSE "bob"]
    /\ hsToken = [c \in Conns |-> IF c = "c1" THEN "tokA" ELSE "tokB"]
    /\ sessions = InitSessions
    /\ userStatus = [u \in UserDb |-> "online"]
    /\ roomDb = InitRoomDb
    /\ socketMeta = Conns
    /\ metaUser = [c \in Conns |-> IF c = "c1" THEN "alice" ELSE "bob"]
    /\ metaRooms = [c \in Conns |-> IF c = "c1" THEN << PublicRoom, PrivateRoom >>
                                    ELSE << PublicRoom >>]
    /\ rooms = [r \in {PublicRoom, PrivateRoom} |-> RoomIndex(r) * NumGens + 1]
    /\ heap = [s \in SetIds |-> IF s = RoomIndex(PublicRoom) * NumGens + 1 THEN Conns
                                ELSE IF s = RoomIndex(PrivateRoom) * NumGens + 1 THEN {"c1"}
                                ELSE {}]
    /\ onlineUsers = [u \in Users |-> IF u = "alice" THEN {"c1"} ELSE {"c2"}]
    /\ typingTimers = EmptyMap
    /\ timers = EmptyMap
    /\ readReceipts = EmptyMap
    /\ now = 0
    /\ tasks = [t \in {"h1"} |-> IdleTask]
    /\ cl = [c \in Conns |-> NoClose]
    /\ out = {}
    /\ calls = {}
    /\ last = Step("init", NoConn, NoRoomId)
    /\ ClientIdle

\* Every kind of valid frame from the subscribed connections, and moderation.
\* The clock advances from one accepted receipt to the next.
NextValid ==
    \/ \E c \in Conns, f \in SendFrames \ InvalidFrames : RecvSend(c, f)
    \/ \E t \in DOMAIN tasks : SendUpdated(t)
    \/ \E t \in DOMAIN tasks, ok \in BOOLEAN : SendPersisted(t, ok)
    \/ \E c \in Conns, f \in TypingFrames \ InvalidFrames : RecvTyping(c, f)
    \/ \E x \in TimerIds : TimerFire(x)
    \/ \E c \in Conns, f \in ReceiptFrames \ InvalidFrames, t \in 0..MaxClock :
          /\ t > now \/ notSubscribed(c, parseClientMessage(f).roomId)
          /\ RecvReceipt(c, f, t, t)
    \/ \E a, u \in Users, r \in RoomIds, ban \in BOOLEAN : KickStart(a, r, u, ban)
    \/ \E t \in DOMAIN tasks : KickUpdated(t)
    \/ \E t \in DOMAIN tasks, ok \in BOOLEAN : KickPersisted(t, ok)

SpecValid == InitJoined /\ [][NextValid]_vars

\* Typing in the private room, with closes and moderation.
NextTyping ==
    \/ \E c \in Conns : Close(c)
    \/ \E c \in Conns : CloseOffline(c)
    \/ \E c \in Conns, ok \in BOOLEAN : ClosePersisted(c, ok)
    \/ \E c \in Conns, f \in {x \in JoinFrames : x.roomId = PrivateRoom} : RecvJoin(c, f)
    \/ \E t \in DOMAIN tasks : JoinFound(t)
    \/ \E t \in DOMAIN tasks : JoinUpdated(t)
    \/ \E t \in DOMAIN tasks, ok \in BOOLEAN : JoinPersisted(t, ok)
    \/ \E c \in Conns, f \in TypingFrames \ InvalidFrames : RecvTyping(c, f)
    \/ \E x \in TimerIds : TimerFire(x)
    \/ \E a, u \in Users, r \in RoomIds, ban \in BOOLEAN : KickStart(a, r, u, ban)
    \/ \E t \in DOMAIN tasks : KickUpdated(t)
    \/ \E t \in DOMAIN tasks, ok \in BOOLEAN : KickPersisted(t, ok)

SpecTyping == InitReady /\ [][NextTyping]_vars


\* As InitJoined, with room for two suspended message handlers, so that a
\* JOIN_ROOM can run while a SEND_MESSAGE awaits the database.
InitOverlap ==
    /\ sock = [c \in Conns |-> "open"]
    /\ closeCode = [c \in Conns |-> 0]
    /\ hs = [c \in Conns |-> "ready"]
    /\ hsUser = [c \in Conns |-> IF c = "c1" THEN "alice" ELSE "bob"]
    /\ hsToken = [c \in Conns |-> IF c = "c1" THEN "tokA" ELSE "tokB"]
    /\ sessions = InitSessions
    /\ userStatus = [u \in UserDb |-> "online"]
    /\ roomDb = InitRoomDb
    /\ socketMeta = Conns
    /\ metaUser = [c \in Conns |-> IF c = "c1" THEN "alice" ELSE "bob"]
    /\ metaRooms = [c \in Conns |-> IF c = "c1" THEN << PublicRoom, PrivateRoom >>
                                    ELSE << PublicRoom >>]
    /\ rooms = [r \in {PublicRoom, PrivateRoom} |-> RoomIndex(r) * NumGens + 1]
    /\ heap = [s \in SetIds |-> IF s = RoomIndex(PublicRoom) * NumGens + 1 THEN Conns
                                ELSE IF s = RoomIndex(PrivateRoom) * NumGens + 1 THEN {"c1"}
                                ELSE {}]
    /\ onlineUsers = [u \in Users |-> IF u = "alice" THEN {"c1"} ELSE {"c2"}]
    /\ typingTimers = EmptyMap
    /\ timers = EmptyMap
    /\ readReceipts = EmptyMap
    /\ now = 0
    /\ tasks = [t \in {"h1", "h2"} |-> IdleTask]
    /\ cl = [c \in Conns |-> NoClose]
    /\ out = {}
    /\ calls = {}
    /\ last = Step("init", NoConn, NoRoomId)
    /\ ClientIdle

\* Messages and joins of the private room, overlapping each other and closes.
NextOverlap ==
    \/ \E c \in Conns : Close(c)
    \/ \E c \in Conns : CloseOffline(c)
    \/ \E c \in Conns, ok \in BOOLEAN : ClosePersisted(c, ok)
    \/ \E c \in Conns, f \in {x \in JoinFrames : x.roomId = PrivateRoom} : RecvJoin(c, f)
    \/ \E t \in DOMAIN tasks : JoinFound(t)
    \/ \E t \in DOMAIN tasks : JoinUpdated(t)
    \/ \E t \in DOMAIN tasks, ok \in BOOLEAN : JoinPersisted(t, ok)
    \/ \E c \in Conns, f \in {x \in SendFrames : x.roomId = PrivateRoom /\ x.text = "hi"} :
          RecvSend(c, f)
    \/ \E t \in DOMAIN tasks : SendUpdated(t)
    \/ \E t \in DOMAIN tasks, ok \in BOOLEAN : SendPersisted(t, ok)

SpecOverlap == InitOverlap /\ [][NextOverlap]_vars


\* Every inbound frame carries identity fields naming some user, the sender
\* or another one; the connections are in session and subscribed.
NextIdentity ==
    \/ \E c \in Conns, f \in ForgedJoinFrames : RecvJoin(c, f)
    \/ \E t \in DOMAIN tasks : JoinFound(t)
    \/ \E t \in DOMAIN tasks : JoinUpdated(t)
    \/ \E t \in DOMAIN tasks, ok \in BOOLEAN : JoinPersisted(t, ok)
    \/ \E c \in Conns, f \in ForgedSendFrames : RecvSend(c, f)
    \/ \E t \in DOMAIN tasks : SendUpdated(t)
    \/ \E t \in DOMAIN tasks, ok \in BOOLEAN : SendPersisted(t, ok)
    \/ \E c \in Conns, f \in ForgedTypingFrames : RecvTyping(c, f)
    \/ \E x \in TimerIds : TimerFire(x)
    \/ \E c \in Conns, f \in ForgedReceiptFrames, t \in 0..MaxClock :
          /\ t > now \/ notSubscribed(c, parseClientMessage(f).roomId)
          /\ RecvReceipt(c, f, t, t)

SpecIdentity == InitJoined /\ [][NextIdentity]_vars


\* The Room documents findOne can return for one room id: none, or one of any
\* type with any member list and ban list.
RoomRecords ==
    {NoRoom} \cup
    {[exists |-> TRUE, type |-> ty, members |-> m, bannedMembers |-> b, createdBy |-> "alice"] :
        ty \in {"public", "dm", "private"}, m \in SUBSET Users, b \in SUBSET Users}

\* As InitReady, with any Room document stored for the private room id.
InitRecords ==
    /\ sock = [c \in Conns |-> "open"]
    /\ closeCode = [c \in Conns |-> 0]
    /\ hs = [c \in Conns |-> "ready"]
    /\ hsUser = [c \in Conns |-> IF c = "c1" THEN "alice" ELSE "bob"]
    /\ hsToken = [c \in Conns |-> IF c = "c1" THEN "tokA" ELSE "tokB"]
    /\ sessions = InitSessions
    /\ userStatus = [u \in UserDb |-> "online"]
    /\ \E rec \in RoomRecords : roomDb = [InitRoomDb EXCEPT ![PrivateRoom] = rec]
    /\ socketMeta = Conns
    /\ metaUser = [c \in Conns |-> IF c = "c1" THEN "alice" ELSE "bob"]
    /\ metaRooms = [c \in Conns |-> << >>]
    /\ rooms = EmptyMap
    /\ heap = [s \in SetIds |-> {}]
    /\ onlineUsers = [u \in Users |-> IF u = "alice" THEN {"c1"} ELSE {"c2"}]
    /\ typingTimers = EmptyMap
    /\ timers = EmptyMap
    /\ readReceipts = EmptyMap
    /\ now = 0
    /\ tasks = [t \in {"h1"} |-> IdleTask]
    /\ cl = [c \in Conns |-> NoClose]
    /\ out = {}
    /\ calls = {}
    /\ last = Step("init", NoConn, NoRoomId)
    /\ ClientIdle

\* JOIN_ROOM for the private room id, whatever its document is.
NextRecords ==
    \/ \E c \in Conns, f \in {x \in JoinFrames : x.roomId = PrivateRoom} : RecvJoin(c, f)
    \/ \E t \in DOMAIN tasks : JoinFound(t)
    \/ \E t \in DOMAIN tasks : JoinUpdated(t)
    \/ \E t \in DOMAIN tasks, ok \in BOOLEAN : JoinPersisted(t, ok)

SpecRecords == InitRecords /\ [][NextRecords]_vars


\* Read receipts and messages of the subscribed connections; the two clock
\* readings of one receipt may differ.
NextReceipts ==
    \/ \E c \in Conns, f \in ReceiptFrames \ InvalidFrames, t1, t2 \in 0..MaxClock :
          RecvReceipt(c, f, t1, t2)
    \/ \E c \in Conns, f \in PlainSendFrames : RecvSend(c, f)
    \/ \E t \in DOMAIN tasks : SendUpdated(t)
    \/ \E t \in DOMAIN tasks, ok \in BOOLEAN : SendPersisted(t, ok)

SpecReceipts == InitJoined /\ [][NextReceipts]_vars


\* Joins of the private room overlapping kicks and bans: two handlers can be
\* suspended at once.
NextModeration ==
    \/ \E c \in Conns, f \in {x \in JoinFrames : x.roomId = PrivateRoom} : RecvJoin(c, f)
    \/ \E t \in DOMAIN tasks : JoinFound(t)
    \/ \E t \in DOMAIN tasks : JoinUpdated(t)
    \/ \E t \in DOMAIN tasks, ok \in BOOLEAN : JoinPersisted(t, ok)
    \/ \E a, u \in Users, r \in RoomIds, ban \in BOOLEAN : KickStart(a, r, u, ban)
    \/ \E t \in DOMAIN tasks : KickUpdated(t)
    \/ \E t \in DOMAIN tasks, ok \in BOOLEAN : KickPersisted(t, ok)

SpecModeration == InitOverlap /\ [][NextModeration]_vars


\* Sessions revoked while connections come and go: handshakes of the two
\* live tokens, closes, and POST /logout.
LiveTokens == {"tokA", "tokB"}

NextLogout ==
    \/ \E c \in Conns, tok \in LiveTokens : Connect(c, tok)
    \/ \E c \in Conns : ConnResolved(c)
    \/ \E c \in Conns : ConnUserData(c)
    \/ \E c \in Conns : ConnOnline(c)
    \/ \E c \in Conns : Close(c)
    \/ \E c \in Conns : CloseRevoked(c)
    \/ \E c \in Conns : CloseOffline(c)
    \/ \E t \in DOMAIN tasks, tok \in LiveTokens : LogoutStart(t, tok)
    \/ \E t \in DOMAIN tasks : LogoutDeleted(t)

SpecLogout == Init /\ [][NextLogout]_vars


\* The browser client alone; the server is whatever answers its sockets.
ServerIdle ==
    /\ sock = [c \in Conns |-> "none"]
    /\ closeCode = [c \in Conns |-> 0]
    /\ hs = [c \in Conns |-> "none"]
    /\ hsUser = [c \in Conns |-> NoUser]
    /\ hsToken = [c \in Conns |-> NoToken]
    /\ sessions = InitSessions
    /\ userStatus = [u \in UserDb |-> "offline"]
    /\ roomDb = InitRoomDb
    /\ socketMeta = {}
    /\ metaUser = [c \in Conns |-> NoUser]
    /\ metaRooms = [c \in Conns |-> << >>]
    /\ rooms = EmptyMap
    /\ heap = [s \in SetIds |-> {}]
    /\ onlineUsers = EmptyMap
    /\ typingTimers = EmptyMap
    /\ timers = EmptyMap
    /\ readReceipts = EmptyMap
    /\ now = 0
    /\ tasks = [t \in {"h1"} |-> IdleTask]
    /\ cl = [c \in Conns |-> NoClose]
    /\ out = {}
    /\ calls = {}
    /\ last = Step("init", NoConn, NoRoomId)

InitClient == ServerIdle /\ ClientIdle

NextClient ==
    \/ \E stored \in {NoToken, "tokA"} : Mount(stored)
    \/ \E throws \in BOOLEAN : MountFetched(throws)
    \/ Unmount
    \/ LoginStart
    \/ \E ok \in BOOLEAN : LoginResponse(ok)
    \/ \E throws \in BOOLEAN : LoginFetched(throws)
    \/ LogoutUser
    \/ \E s \in ClientSockets : WsOpen(s)
    \/ \E s \in ClientSockets : WsError(s)
    \/ \E s \in ClientSockets : WsClose(s)
    \/ \E x \in ClientTimerIds, throws \in BOOLEAN : ReconnectTimerFired(x, throws)

SpecClient == InitClient /\ [][NextClient]_vars

\* The client with its user opening rooms.
NextRejoin ==
    \/ Mount("tokA")
    \/ MountFetched(FALSE)
    \/ LoginStart
    \/ LoginResponse(TRUE)
    \/ LoginFetched(FALSE)
    \/ LogoutUser
    \/ \E r \in ClientRooms : JoinRoom(r)
    \/ \E s \in ClientSockets : WsOpen(s)
    \/ \E s \in ClientSockets : WsClose(s)
    \/ \E x \in ClientTimerIds : ReconnectTimerFired(x, FALSE)

SpecRejoin == InitClient /\ [][NextRejoin]_vars


\* Connections that come and go, with every suspended handler resumed in
\* the end: the database answers every call.
NextClosing ==
    \/ \E c \in Conns, tok \in LiveTokens : Connect(c, tok)
    \/ \E c \in Conns : ConnResolved(c)
    \/ \E c \in Conns : ConnUserData(c)
    \/ \E c \in Conns : ConnOnline(c)
    \/ \E c \in Conns : Close(c)
    \/ \E c \in Conns : CloseOffline(c)

FairClosing ==
    \A c \in Conns : /\ WF_vars(ConnResolved(c))
                     /\ WF_vars(ConnUserData(c))
                     /\ WF_vars(ConnOnline(c))
                     /\ WF_vars(CloseOffline(c))

SpecClosing == Init /\ [][NextClosing]_vars /\ FairClosing


\* Two messages of one connection for the public room, the second received
\* while the first awaits the database: a plain text, then an encrypted one
\* whose text is kept as it came.
FirstFrame == RawFrame("ok", "SEND_MESSAGE", PublicRoom, "hi", NonBool, FALSE)
SecondFrame == RawFrame("ok", "SEND_MESSAGE", PublicRoom, "javascript:", NonBool, TRUE)

\* The handler slot holds a SEND_MESSAGE of the connection with the text.
Sending(t, c, text) ==
    /\ tasks[t].pc \in {"send_update", "send_persist"}
    /\ tasks[t].conn = c
    /\ tasks[t].text = text

NextOrder ==
    \/ \E c \in Conns :
          /\ \A t \in DOMAIN tasks : tasks[t].pc = "idle"
          /\ RecvSend(c, FirstFrame)
    \/ \E c \in Conns :
          /\ \E t \in DOMAIN tasks : Sending(t, c, parseClientMessage(FirstFrame).text)
          /\ \A t \in DOMAIN tasks : tasks[t].text # parseClientMessage(SecondFrame).text
          /\ RecvSend(c, SecondFrame)
    \/ \E t \in DOMAIN tasks : SendUpdated(t)
    \/ \E t \in DOMAIN tasks, ok \in BOOLEAN : SendPersisted(t, ok)
    \/ \E c \in Conns : Close(c)
    \/ \E c \in Conns : CloseOffline(c)
    \/ \E c \in Conns, ok \in BOOLEAN : ClosePersisted(c, ok)

SpecOrder == InitOverlap /\ [][NextOrder]_vars


\* ===================================================================
\* Properties
\* ===================================================================
\* The step in which the 'message' listener takes frame f of connection c.
Handles(c, f) ==
    \/ RecvInvalid(c, f)
    \/ RecvJoin(c, f)
    \/ RecvSend(c, f)
    \/ RecvTyping(c, f)
    \/ \E t1, t2 \in 0..MaxClock : RecvReceipt(c, f, t1, t2)

KnownTypes == {"JOIN_ROOM", "SEND_MESSAGE", "TYPING", "READ_RECEIPT"}

\* A frame that is not JSON, not {type: string, payload: object}, of an
\* unknown type, or whose required fields are empty or of the wrong type.
FailsValidation(f) ==
    \/ f.shape # "ok"
    \/ f.type \notin KnownTypes
    \/ f.roomId \in {NonString, " ", "!!"}
    \/ f.type = "SEND_MESSAGE" /\ f.text \in {NonString, " "}
    \/ f.type = "TYPING" /\ f.isTyping = NonBool

FailingFrames == {f \in FrameInputs : FailsValidation(f)}

\* The valid frames that act on a room the connection must have joined.
RoomFrames == (SendFrames \cup TypingFrames \cup ReceiptFrames) \ InvalidFrames

\* No handler is suspended on an await: every message and moderation handler
\* has ended, and every close handler has not started or has ended.
Quiescent ==
    /\ \A t \in DOMAIN tasks : tasks[t].pc = "idle"
    /\ \A c \in Conns : cl[c].pc \in {"none", "done", "aborted"}
    /\ \A c \in Conns : hs[c] \in {"none", "rejected", "failed", "ready"}

\* c is in the Set object that rooms holds for r.
InRoom(c, r) == MapHas(rooms, r) /\ c \in heap[rooms[r]]

\* r is in socketMeta.get(c).rooms.
Joined(c, r) == c \in socketMeta /\ SeqHas(metaRooms[c], r)

\* C1: whenever no operation is in progress, a connection is in rooms[R]
\* exactly when R is in its joined-room set, for every connection and room.
C1_BidirectionalSubscription ==
    Quiescent => \A c \in Conns, r \in RoomIds : InRoom(c, r) <=> Joined(c, r)

\* C2: a SEND_MESSAGE for a room that is not in the connection's joined-room
\* set sends no ROOM_MESSAGE to anybody, issues no database call (neither
\* persist nor Room.updateOne) and leaves no handler suspended that could
\* issue one later, whatever the rooms Map holds.
C2_SendNotJoinedNoEffect ==
    [][\/ /\ {m \in out' : m.type = "ROOM_MESSAGE"} = {}
          /\ calls' = {}
          /\ tasks' = tasks
       \/ \A c \in {last'.conn} \cap Conns, f \in SendFrames \ InvalidFrames :
             ~(/\ ~SeqHas(metaRooms[c], parseClientMessage(f).roomId)
               /\ RecvSend(c, f))]_vars

\* C2 witness: c2 has sent to the public room, which c1 is subscribed to and
\* c2 is not, and the frame has been dropped.
C2_Witness ==
    /\ last = Step("send_dropped", "c2", PublicRoom)
    /\ MapHas(rooms, PublicRoom)
    /\ heap[rooms[PublicRoom]] = {"c1"}
    /\ ~SeqHas(metaRooms["c2"], PublicRoom)

\* The room id starts with "dm:".
DmPrefixed(r) == r = PrivateRoom

\* What the join texts show for room r.
Shown(r) == IF DmPrefixed(r) THEN "dm" ELSE r

\* The JOIN_ROOM contract with the room named by `name` in the texts: the
\* subscription, the ACK and the single persist call, the SYSTEM notice.
JoinContract(name(_)) ==
    \A t \in DOMAIN tasks :
        LET c == tasks[t].conn
            r == tasks[t].roomId
            u == metaUser[c]
        IN  /\ (tasks[t].pc = "join_find" /\ tasks'[t].pc = "join_update")
               => /\ MapHas(rooms', r)
                  /\ c \in heap'[rooms'[r]]
                  /\ SeqHas(metaRooms'[c], r)
            /\ (tasks[t].pc = "join_update" /\ tasks'[t].pc = "join_persist")
               => /\ out' = {Frame(x, "ACK", NoRoomId, "Joined room " \o name(r), NoUser, "-") :
                                x \in {y \in {c} : sock[y] = "open"}}
                  /\ calls' = {Call("persist", r, u, "SYSTEM", u \o " joined " \o name(r))}
            /\ (tasks[t].pc = "join_persist" /\ tasks'[t].pc = "idle" /\ last'.op = "join_notice")
               => out' = {Frame(x, "SYSTEM", r, u \o " joined " \o name(r), NoUser, "-") :
                             x \in {y \in heap[tasks[t].room] : sock[y] = "open"}}

JoinDenied(rec, u) ==
    \/ ~rec.exists
    \/ rec.type # "public" /\ (u \notin rec.members \/ u \in rec.bannedMembers)

\* C4: a JOIN_ROOM whose room record is absent or whose user may not join
\* sends exactly one ERR_ACK to the requester (written only while its socket
\* is open) and nothing to anyone else, issues no database call, ends the
\* handler, and leaves rooms and the joined-room sets unchanged.
C4_FailedJoinOnlyErrAck ==
    [][\A t \in DOMAIN tasks :
          (/\ tasks[t].pc = "join_find"
           /\ tasks'[t] # tasks[t]
           /\ JoinDenied(tasks[t].rec, metaUser[tasks[t].conn]))
          => /\ \E text \in {"Room does not exist", "Access denied"} :
                   out' = {Frame(x, "ERR_ACK", NoRoomId, text, NoUser, "-") :
                              x \in {y \in {tasks[t].conn} : sock[y] = "open"}}
             /\ calls' = {}
             /\ tasks'[t].pc = "idle"
             /\ UNCHANGED << rooms, heap, metaRooms >>]_vars

\* C4 witness: bob, removed from the private room's members, has asked to
\* join it while alice is subscribed, and has been refused.
C4_Witness ==
    /\ last = Step("join_refused", "c2", PrivateRoom)
    /\ out = {Frame("c2", "ERR_ACK", NoRoomId, "Access denied", NoUser, "-")}
    /\ InRoom("c1", PrivateRoom)
    /\ ~InRoom("c2", PrivateRoom)

\* C5: a JOIN_ROOM by a connection that is already in the room's subscriber
\* set leaves that set, the rooms Map and the joined-room sets as they were.
C5_JoinIdempotent ==
    [][\A t \in DOMAIN tasks :
          (/\ tasks[t].pc = "join_find"
           /\ tasks'[t].pc = "join_update"
           /\ InRoom(tasks[t].conn, tasks[t].roomId))
          => UNCHANGED << rooms, heap, metaRooms >>]_vars

\* C5 witness: c1 has joined the public room again; the room was in its
\* joined-room set before the private room, so it was there already.
C5_Witness ==
    /\ last = Step("join_added", "c1", PublicRoom)
    /\ sock["c1"] = "open"
    /\ metaRooms["c1"] = << PublicRoom, PrivateRoom >>
    /\ heap[rooms[PublicRoom]] = {"c1", "c2"}

\* C6: a frame that fails validation is answered with exactly one ERR_ACK to
\* its sender and nothing else; rooms, the registry, the typing timers, the
\* read receipts and presence are unchanged, no database call is made and the
\* socket stays open.
C6_InvalidFrameErrAck ==
    [][\A c \in {last'.conn} \cap Conns :
          \/ /\ out' = {Frame(c, "ERR_ACK", NoRoomId, "Invalid message format", NoUser, "-")}
             /\ calls' = {}
             /\ sock'[c] = "open"
             /\ UNCHANGED << rooms, heap, socketMeta, metaUser, metaRooms, typingTimers,
                             timers, readReceipts, onlineUsers, tasks >>
          \/ \A f \in FailingFrames : ~Handles(c, f)]_vars

\* C6 witness: an invalid frame of c1 has been answered while c1 is
\* subscribed to a room.
C6_Witness ==
    /\ last = Step("invalid", "c1", NoRoomId)
    /\ out = {Frame("c1", "ERR_ACK", NoRoomId, "Invalid message format", NoUser, "-")}
    /\ Len(metaRooms["c1"]) > 0
    /\ sock["c1"] = "open"

\* C7: a valid SEND_MESSAGE, TYPING or READ_RECEIPT for a room that is not in
\* the connection's joined-room set sends no frame to anybody, arms and
\* cancels no typing timer and records no read receipt.
C7_NotJoinedDroppedSilently ==
    [][\/ /\ out' = {}
          /\ calls' = {}
          /\ UNCHANGED << typingTimers, timers, readReceipts, tasks >>
       \/ \A c \in {last'.conn} \cap Conns, f \in RoomFrames :
             ~(/\ ~SeqHas(metaRooms[c], parseClientMessage(f).roomId)
               /\ Handles(c, f))]_vars

\* C7 witness: bob's TYPING for the private room, which he has not joined,
\* has been dropped while alice's typing timer for that room is pending.
C7_Witness ==
    /\ last = Step("typing_dropped", "c2", PrivateRoom)
    /\ ~SeqHas(metaRooms["c2"], PrivateRoom)
    /\ MapHas(typingTimers, PrivateRoom)
    /\ MapHas(typingTimers[PrivateRoom], "alice")
    /\ out = {}

\* The tokens of the claim: missing, unknown, expired, of a deleted user.
RefusedTokens == {NoToken, "tokBad", "tokOld", "tokGone"}

\* c is in no registry, presence or room structure.
Untracked(c) ==
    /\ c \notin socketMeta
    /\ \A u \in DOMAIN onlineUsers : c \notin onlineUsers[u]
    /\ \A s \in SetIds : c \notin heap[s]
    /\ metaRooms[c] = << >>

\* C8: a connection whose token is missing, unknown, expired or names a
\* deleted user never gets past identity resolution; once refused, the server
\* has closed its socket with code 1008; a missing token is refused at once;
\* and the connection never has an entry in socketMeta, onlineUsers or a room.
C8_BadTokenRejected ==
    \A c \in Conns :
        (hs[c] # "none" /\ hsToken[c] \in RefusedTokens)
        => /\ hs[c] \in {"resolve", "rejected"}
           /\ hsToken[c] = NoToken => hs[c] = "rejected"
           /\ hs[c] = "rejected" => (sock[c] = "closed" /\ closeCode[c] = 1008)
           /\ Untracked(c)

\* C8 witness: c1 came with the token of a deleted user and c2 with an expired
\* token; both have been refused.
C8_Witness ==
    /\ hsToken["c1"] = "tokGone" /\ hs["c1"] = "rejected" /\ closeCode["c1"] = 1008
    /\ hsToken["c2"] = "tokOld" /\ hs["c2"] = "rejected" /\ closeCode["c2"] = 1008

\* The connection handler has not created the registry entry of c yet.
Unregistered(c) == c \notin socketMeta /\ cl[c].pc = "none"

\* C9: while a connection has no registry entry yet, no frame is written to
\* it, no handler is started for it and it enters no room; it is registered
\* only once its identity has been resolved; and it is registered at most
\* once, since the connection handler only moves forward.
C9_NoDispatchBeforeRegistered ==
    [][\A c \in Conns :
          /\ Unregistered(c)
             => /\ \A m \in out' : m.to # c
                /\ \A t \in DOMAIN tasks' : tasks'[t].conn # c
                /\ \A s \in SetIds : c \notin heap'[s]
                /\ metaRooms'[c] = << >>
                /\ last'.conn = c
                   => UNCHANGED << roomVars, typingVars, receiptVars, tasks >>
          /\ (c \notin socketMeta /\ c \in socketMeta')
             => /\ Unregistered(c)
                /\ hs[c] = "userdata"
                /\ hsUser[c] \in Users
                /\ metaUser'[c] = hsUser[c]
                /\ hs'[c] \in {"online", "ready"}
          /\ hs'[c] = "userdata" => hs[c] \in {"resolve", "userdata"}
          /\ hs'[c] = "resolve" => hs[c] \in {"none", "resolve"}
          /\ hs'[c] = "none" => hs[c] = "none"]_vars

\* C9 witness: a frame of c1 has arrived while its connection handler was
\* still awaiting; c2 is registered and subscribed.
C9_Witness ==
    /\ last = Step("unheard", "c1", NoRoomId)
    /\ Unregistered("c1")
    /\ sock["c1"] = "open"
    /\ InRoom("c2", PublicRoom)

\* The timeouts pending for user u in room r.
PendingFor(tm, r, u) == {x \in DOMAIN tm : tm[x].roomId = r /\ tm[x].user = u}

\* Some connection of user u is in the room's subscriber set.
UserInRoom(u, r) == \E c \in Conns : InRoom(c, r) /\ metaUser[c] = u

\* C10: an accepted TYPING{isTyping: true} leaves exactly one timeout pending
\* for its (room, user), also when one was pending already; when a timeout
\* elapses, one TYPING{isTyping: false} for that user is written to every open
\* connection of the subscriber set taken when the timeout was armed, which
\* is still the room's set while the user is subscribed, and afterwards no
\* timeout is pending for that (room, user).
C10_OneExpiryPerArm ==
    [][/\ \A r \in RoomIds, u \in Users : Cardinality(PendingFor(timers', r, u)) <= 1
       /\ last'.op = "typing_on"
          => Cardinality(PendingFor(timers', last'.roomId, metaUser[last'.conn])) = 1
       /\ \A x \in DOMAIN timers :
             (x \notin DOMAIN timers' /\ last'.op = "typing_expired")
             => LET r == timers[x].roomId
                    u == timers[x].user
                IN  /\ out' = {Frame(c, "TYPING", r, NoText, u, "false") :
                                  c \in {y \in heap[timers[x].room] : sock[y] = "open"}}
                    /\ UserInRoom(u, r)
                       => out' = {Frame(c, "TYPING", r, NoText, u, "false") :
                                     c \in {y \in heap[rooms[r]] : sock[y] = "open"}}
                    /\ PendingFor(timers', r, u) = {}]_vars

\* C10 witness: bob's timeout in the private room has elapsed and the
\* synthetic TYPING{isTyping: false} has gone to both subscribers.
C10_Witness ==
    /\ last = Step("typing_expired", NoConn, PrivateRoom)
    /\ out = {Frame(c, "TYPING", PrivateRoom, NoText, "bob", "false") : c \in {"c1", "c2"}}
    /\ timers = EmptyMap

\* The steps of the close handler that start the iteration for one room:
\* each calls stopTypingForUser(roomId, meta.userId).
CloseStops(c) ==
    /\ last'.op \in {"close", "close_offline", "close_left"}
    /\ last'.conn = c
    /\ cl'[c].pc = "persist"

\* C11: the timeout callback of one scheduleTypingTimeout call fires at most
\* once, and never after stopTypingForUser ran for the same (roomId, userId):
\* an expiry consumes exactly one pending handle, which is not pending
\* afterwards; after an explicit isTyping=false and after each room iteration
\* of the close handler no handle is pending for the pair; and a handle
\* becomes pending only by a new isTyping=true of that user in that room.
C11_FiresOnceNeverAfterStop ==
    [][/\ last'.op = "typing_expired"
            => /\ Cardinality(DOMAIN timers \ DOMAIN timers') = 1
               /\ \A x \in DOMAIN timers \ DOMAIN timers' :
                     /\ timers[x].roomId = last'.roomId
                     /\ PendingFor(timers', timers[x].roomId, timers[x].user) = {}
               /\ \A x \in DOMAIN timers' : timers'[x] = timers[x]
       /\ last'.op = "typing_off"
            => PendingFor(timers', last'.roomId, metaUser[last'.conn]) = {}
       /\ \A c \in Conns :
             CloseStops(c) => PendingFor(timers', cl'[c].roomId, metaUser[c]) = {}
       /\ \A x \in DOMAIN timers' :
             \/ x \in DOMAIN timers /\ timers'[x] = timers[x]
             \/ /\ last'.op = "typing_on"
                /\ timers'[x].roomId = last'.roomId
                /\ timers'[x].user = metaUser[last'.conn]]_vars

\* bob stopped typing explicitly while alice's timeout is still pending.
C11_Witness ==
    /\ last = Step("typing_off", "c2", PrivateRoom)
    /\ PendingFor(timers, PrivateRoom, "bob") = {}
    /\ PendingFor(timers, PrivateRoom, "alice") # {}
    /\ out = {Frame(c, "TYPING", PrivateRoom, NoText, "bob", "false") : c \in {"c1", "c2"}}

\* C12: at most one timeout is pending per (roomId, userId), and
\* typingTimers[roomId][userId] is present exactly when that timeout is
\* pending: every stored handle is a pending timeout of its pair, every
\* pending timeout is the stored handle of its pair, and no inner map is empty.
C12_TypingMapMatchesTimers ==
    /\ \A r \in DOMAIN typingTimers :
          /\ DOMAIN typingTimers[r] # {}
          /\ \A u \in DOMAIN typingTimers[r] :
                /\ MapHas(timers, typingTimers[r][u])
                /\ timers[typingTimers[r][u]].roomId = r
                /\ timers[typingTimers[r][u]].user = u
    /\ \A x \in DOMAIN timers :
          /\ MapHas(typingTimers, timers[x].roomId)
          /\ MapHas(typingTimers[timers[x].roomId], timers[x].user)
          /\ typingTimers[timers[x].roomId][timers[x].user] = x
    /\ \A r \in RoomIds, u \in Users : Cardinality(PendingFor(timers, r, u)) <= 1

\* Both members of the private room are typing: two timeouts, two entries.
C12_Witness ==
    /\ Cardinality(DOMAIN timers) = 2
    /\ MapHas(typingTimers, PrivateRoom)
    /\ DOMAIN typingTimers[PrivateRoom] = {"alice", "bob"}


\* The connections of user u whose handshake is complete and whose socket is
\* open.
LiveFor(u) == {c \in Conns : sock[c] = "open" /\ hs[c] = "ready" /\ metaUser[c] = u}

\* The durable presence write 'offline' for user u.
OfflineWrite(u) == Call("User.updateOne", NoRoomId, u, "-", "offline")

C14_OnlineKeyIffNonEmptySet ==
    \A u \in Users : MapHas(onlineUsers, u) => onlineUsers[u] # {}


\* C15: once the close handler of a connection has run to its end, the
\* connection has no socketMeta entry and is in the subscriber set of none of
\* the rooms of its joined-room set.
C15_ClosedConnectionLeftItsRooms ==
    \A c \in Conns :
        cl[c].pc = "done"
            => /\ c \notin socketMeta
               /\ \A r \in RoomIds : SeqHas(metaRooms[c], r) => ~InRoom(c, r)


\* The close handler of c ends in this step.
CloseEnds(c) ==
    /\ cl[c].pc \notin {"none", "done", "aborted"}
    /\ cl'[c].pc \in {"done", "aborted"}

\* The SYSTEM leave notice of user u for room r, to the open members of the
\* Set object s.
LeaveNotice(s, u, r) == Broadcast(sock, heap, s, "SYSTEM", r, leftText(u, r), NoUser, "-")

\* C16: a closing connection gives each room of its joined-room set exactly
\* one leave notice and one persist call, and no other room any: an
\* iteration starts only for a room of the joined set that had none yet and
\* issues one persist call for it; when the persist call has been answered
\* the room's members are sent the notice; and the handler ends only when
\* every room of the joined set that has a rooms entry had its iteration.
C16_OneLeaveNoticePerRoom ==
    [][\A c \in {last'.conn} \cap Conns :
          /\ CloseStops(c)
                => /\ SeqHas(metaRooms[c], cl'[c].roomId)
                   /\ cl'[c].roomId \notin cl[c].visited
                   /\ calls' = {Call("persist", cl'[c].roomId, metaUser[c], "SYSTEM",
                                     leftText(metaUser[c], cl'[c].roomId))}
          /\ (cl[c].pc = "persist" /\ cl'[c] # cl[c])
                => {m \in out' : m.type = "SYSTEM"}
                      = LeaveNotice(cl[c].room, metaUser[c], cl[c].roomId)
          /\ CloseEnds(c)
                => \A r \in RoomIds :
                      SeqHas(metaRooms[c], r) => r \in cl[c].visited \/ ~MapHas(rooms', r)]_vars


\* C17: whenever no operation is in progress, rooms holds no entry whose Set
\* object is empty.
C17_NoEmptyRoomEntry ==
    Quiescent => \A r \in DOMAIN rooms : heap[rooms[r]] # {}

\* alice's connection was the only subscriber of general; its close handler
\* has sent the leave notice, emptied the Set and deleted the entry.
C17_Witness ==
    /\ Quiescent
    /\ last = Step("close_left", "c1", "general")
    /\ cl["c1"].pc = "done"
    /\ SeqHas(metaRooms["c1"], "general")
    /\ ~MapHas(rooms, "general")


\* C18: when the persist call of an accepted SEND_MESSAGE, or of the notice
\* of a JOIN_ROOM, has been answered, by a return or by a failure, the
\* ROOM_MESSAGE (the SYSTEM notice) is sent to the open members of the room.
C18_BroadcastDespitePersistFailure ==
    [][\A t \in DOMAIN tasks :
          /\ (tasks[t].pc = "send_persist" /\ tasks'[t].pc = "idle")
                => out' = Broadcast(sock, heap, tasks[t].room, "ROOM_MESSAGE",
                                    tasks[t].roomId, tasks[t].text,
                                    metaUser[tasks[t].conn], "-")
          /\ (tasks[t].pc = "join_persist" /\ tasks'[t].pc = "idle" /\ tasks[t].room # NoSet)
                => out' = Broadcast(sock, heap, tasks[t].room, "SYSTEM", tasks[t].roomId,
                                    joinedText(metaUser[tasks[t].conn], tasks[t].roomId),
                                    NoUser, "-")]_vars


\* The open connections in the Set object that rooms holds for r now.
CurrentOpen(r) == IF MapHas(rooms, r) THEN {c \in heap[rooms[r]] : sock[c] = "open"} ELSE {}

\* C19: for an accepted SEND_MESSAGE the persist call is issued before any
\* ROOM_MESSAGE is sent (frames of that type are written only by the step
\* that follows the answer of persist, and the step issuing the persist call
\* writes none), and when persist has returned the ROOM_MESSAGE is sent to
\* exactly the open connections of the room's subscriber set of that moment.
C19_BroadcastToCurrentSubscribers ==
    [][/\ {m \in out' : m.type = "ROOM_MESSAGE"} # {} => last'.op = "send_broadcast"
       /\ last'.op = "send_persist"
            => /\ out' = {}
               /\ \E k \in calls' : k.fn = "persist" /\ k.type = "ROOM_MESSAGE"
       /\ \A t \in DOMAIN tasks :
             (tasks[t].pc = "send_persist" /\ tasks'[t].pc = "idle" /\ last'.op = "send_broadcast")
                => out' = {Frame(c, "ROOM_MESSAGE", tasks[t].roomId, tasks[t].text,
                                 metaUser[tasks[t].conn], "-") : c \in CurrentOpen(tasks[t].roomId)}]_vars


\* Handling the frame with forged identity fields is the same step as
\* handling the frame without them, for each of the four message kinds.
ForgeryIgnored(c, who) ==
    /\ last'.op = "join_recv"
          => \A f \in PlainJoinFrames :
                RecvJoin(c, f) \/ ~RecvJoin(c, ForgedFrame(f, who))
    /\ last'.op \in {"send_recv", "send_refused", "send_dropped"}
          => \A f \in PlainSendFrames :
                RecvSend(c, f) \/ ~RecvSend(c, ForgedFrame(f, who))
    /\ last'.op \in {"typing_on", "typing_off", "typing_dropped"}
          => \A f \in PlainTypingFrames :
                RecvTyping(c, f) \/ ~RecvTyping(c, ForgedFrame(f, who))
    /\ last'.op \in {"receipt", "receipt_dropped"}
          => \A f \in PlainReceiptFrames, t \in 0..MaxClock :
                RecvReceipt(c, f, t, t) \/ ~RecvReceipt(c, ForgedFrame(f, who), t, t)

\* C20: the identity in every persist call and in every ROOM_MESSAGE,
\* SYSTEM, TYPING and READ_RECEIPT frame a connection's frames give rise to
\* is the identity resolved from the connection's token (also in the timeout
\* it arms and the read receipt it stores), whatever identity the inbound
\* payload names; and a frame with identity fields in its payload is handled
\* exactly as the same frame without them.
C20_IdentityFromTokenOnly ==
    [][/\ \A c \in {last'.conn} \cap Conns :
             /\ \A m \in out' :
                   /\ m.type \in {"ROOM_MESSAGE", "TYPING", "READ_RECEIPT"}
                         => m.username = hsUser[c]
                   /\ m.type = "SYSTEM" => m.text = joinedText(hsUser[c], m.roomId)
             /\ \A k \in calls' :
                   k.fn = "persist"
                      => /\ k.userId = hsUser[c]
                         /\ k.type = "SYSTEM" => k.text = joinedText(hsUser[c], k.roomId)
             /\ \A x \in DOMAIN timers' :
                   (x \notin DOMAIN timers \/ timers'[x] # timers[x])
                      => timers'[x].user = hsUser[c]
             /\ \A r \in DOMAIN readReceipts' :
                   \A u \in DOMAIN readReceipts'[r] :
                      (~MapHas(readReceipts, r) \/ ~MapHas(readReceipts[r], u)
                            \/ readReceipts'[r][u] # readReceipts[r][u])
                         => u = hsUser[c]
             /\ \A who \in Users : ForgeryIgnored(c, who)
       /\ last'.op = "typing_expired"
             => \A m \in out' :
                   m.username \in {timers[x].user : x \in DOMAIN timers \ DOMAIN timers'}]_vars

\* bob's SEND_MESSAGE, whose payload named a user, has been persisted and
\* broadcast to the public room under bob's name.
C20_Witness ==
    /\ last = Step("send_broadcast", "c2", PublicRoom)
    /\ out = {Frame(c, "ROOM_MESSAGE", PublicRoom, "hi", "bob", "-") : c \in Conns}


\* The room record exists and is public, or the user is one of its members
\* and not on its ban list.
MayJoin(rec, u) ==
    /\ rec.exists
    /\ rec.type = "public" \/ (u \in rec.members /\ u \notin rec.bannedMembers)

\* C21: canJoinRoom is true exactly for the records MayJoin describes; the
\* JOIN_ROOM handler subscribes the connection exactly when that holds for
\* the record Room.findOne returned to it, and a connection enters a
\* subscriber set by no other step.
C21_JoinExactlyWhenAllowed ==
    [][/\ \A t \in DOMAIN tasks :
             (tasks[t].pc = "join_find" /\ tasks'[t] # tasks[t])
                => LET c == tasks[t].conn
                       r == tasks[t].roomId
                       ok == MayJoin(tasks[t].rec, metaUser[c])
                   IN  /\ canJoinRoom(tasks[t].rec, metaUser[c]) <=> ok
                       /\ last'.op = "join_added" <=> ok
                       /\ ok => MapHas(rooms', r) /\ c \in heap'[rooms'[r]]
                       /\ ~ok => UNCHANGED << rooms, heap, metaRooms >>
       /\ \A c \in Conns, r \in RoomIds :
             (~InRoom(c, r) /\ MapHas(rooms', r) /\ c \in heap'[rooms'[r]])
                => last' = Step("join_added", c, r)]_vars

\* bob is a member of the private room and on its ban list, and has been
\* refused.
C21_Witness ==
    /\ last = Step("join_refused", "c2", PrivateRoom)
    /\ roomDb[PrivateRoom].exists
    /\ roomDb[PrivateRoom].type = "private"
    /\ "bob" \in roomDb[PrivateRoom].members
    /\ "bob" \in roomDb[PrivateRoom].bannedMembers
    /\ rooms = EmptyMap


\* The value stored for (r, u), or -1 when none is stored.
StoredReceipt(rr, r, u) == IF MapHas(rr, r) /\ MapHas(rr[r], u) THEN rr[r][u] ELSE 0 - 1

\* C22: an accepted READ_RECEIPT stores, under the key of its room and its
\* user, a clock reading taken while it is handled, which is not below the
\* value stored before; it changes no other key; no other step changes
\* readReceipts; and no stored value is ahead of the clock, which never goes
\* back.
C22_ReceiptMonotonicLastWrite ==
    [][/\ now <= now'
       /\ \A r \in RoomIds, u \in Users :
             /\ StoredReceipt(readReceipts', r, u) <= now'
             /\ StoredReceipt(readReceipts, r, u) <= StoredReceipt(readReceipts', r, u)
             /\ (last'.op = "receipt" /\ last'.roomId = r /\ metaUser[last'.conn] = u)
                   => /\ now <= StoredReceipt(readReceipts', r, u)
                      /\ \A m \in out' : m.type = "READ_RECEIPT" /\ m.username = u
                                            /\ StoredReceipt(readReceipts', r, u) <= m.timestamp
             /\ ~(last'.op = "receipt" /\ last'.roomId = r /\ metaUser[last'.conn] = u)
                   => StoredReceipt(readReceipts', r, u) = StoredReceipt(readReceipts, r, u)]_vars

\* Two receipts for the public room were accepted at different times: bob's
\* at time 0, then alice's once the clock had advanced.
C22_Witness ==
    /\ last = Step("receipt", "c1", PublicRoom)
    /\ now > 0
    /\ StoredReceipt(readReceipts, PublicRoom, "bob") = 0
    /\ StoredReceipt(readReceipts, PublicRoom, "alice") = now


\* The steps of the join, send, typing, receipt, moderation and timeout
\* handlers.
RoomOps ==
    {"join_recv", "join_refused", "join_added", "join_ack", "join_notice", "join_abort",
     "send_recv", "send_refused", "send_dropped", "send_persist", "send_broadcast", "send_abort",
     "typing_on", "typing_off", "typing_dropped", "typing_expired",
     "receipt", "receipt_dropped",
     "kick_recv", "kick_removed", "kick_notice", "kick_abort"}

\* C23: while the close handler of a connection is between the typing
\* cancellation for room R and the removal of the connection from R's Set,
\* no step of a join, send, typing, receipt, moderation or timeout handler
\* acts on R.
C23_CloseAtomicPerRoom ==
    [][\A c \in Conns :
          cl[c].pc = "persist" => ~(last'.op \in RoomOps /\ last'.roomId = cl[c].roomId)]_vars


\* C24: once the close handler of a connection has ended, a message handler
\* of that connection that resumes adds the connection to no subscriber
\* set, creates no rooms entry, issues no database call and sends no frame.
C24_NoOperationAfterClose ==
    [][\A c \in {last'.conn} \cap Conns :
          (cl[c].pc = "done" /\ last'.op \in RoomOps)
             => /\ UNCHANGED << rooms, heap, metaRooms >>
                /\ calls' = {}
                /\ out' = {}]_vars


\* C25: when a kick or ban removes a user's connections from a room, and
\* when the close handler starts on a room, no typing timeout stays pending
\* for that (room, user); and a timeout that fires belongs to a user who
\* still has a connection in the room.
C25_TimerCancelledWithSubscription ==
    [][/\ \A t \in DOMAIN tasks :
             (/\ tasks[t].pc = "kick_update"
              /\ tasks'[t].pc = "kick_persist"
              /\ removedSockets(tasks[t].roomId, tasks[t].target) # {})
                => PendingFor(timers', tasks[t].roomId, tasks[t].target) = {}
       /\ \A c \in Conns :
             CloseStops(c) => PendingFor(timers', cl'[c].roomId, metaUser[c]) = {}
       /\ last'.op = "typing_expired"
             => \A x \in DOMAIN timers \ DOMAIN timers' :
                   UserInRoom(timers[x].user, timers[x].roomId)]_vars


\* C26: whenever no operation is in progress, every connection in the
\* subscriber set of a room that is not public belongs to a user who is in
\* the room document's member list and not on its ban list.
C26_SubscribersAreMembers ==
    Quiescent
       => \A r \in DOMAIN rooms :
             (roomDb[r].exists /\ roomDb[r].type # "public")
                => \A c \in heap[rooms[r]] :
                      /\ metaUser[c] \in roomDb[r].members
                      /\ metaUser[c] \notin roomDb[r].bannedMembers

\* POST /logout of the token has returned: its session is gone (only the
\* logout deletes the session of a live token) and no logout of it is still
\* awaiting Session.deleteOne.
LoggedOut(tok) ==
    /\ ~MapHas(sessions, tok)
    /\ \A t \in DOMAIN tasks : ~(tasks[t].pc = "logout_delete" /\ tasks[t].text = tok)

\* The connection went past resolveAuthenticatedIdentity with the token.
BoundTo(c, tok) == hsToken[c] = tok /\ hs[c] \in {"userdata", "online", "ready"}

\* C27: once POST /logout of a token has returned, no connection
\* authenticated with that token is open: each one has been closed with
\* 1008, also one whose handshake overlapped the logout.
C27_NoLiveConnectionAfterLogout ==
    \A tok \in LiveTokens : LoggedOut(tok) =>
        \A c \in Conns : BoundTo(c, tok) =>
            sock[c] = "closed"

\* C28: at most one reconnect timeout of the client is pending at any time,
\* whatever the order of socket closes, socket errors, connect exceptions and
\* timer firings, and it is the one reconnectTimeoutRef holds.
C28_OneReconnectTimer ==
    /\ Cardinality(DOMAIN clientTimers) <= 1
    /\ DOMAIN clientTimers \subseteq {reconnectTimeoutRef}

\* connectWebSocket threw after a login while a reconnect was already
\* scheduled: attemptReconnect returned without scheduling another.
C28_Witness ==
    /\ last.op = "login_fetched"
    /\ connectionStatus = "error"
    /\ DOMAIN clientTimers # {}
    /\ shouldReconnectRef
    /\ sessionTokenRef # NoToken

\* Reconnect timeouts set by the step.
ScheduledNow == DOMAIN clientTimers' \ DOMAIN clientTimers

\* C29: the reconnect attempt scheduled when k attempts have been scheduled
\* since the last successful open gets the delay min(1000 * 2^k, 30000) ms
\* and is counted; a successful open puts the counter back to 0; nothing
\* else changes the counter.
C29_BackoffDelay ==
    [][/\ \A x \in ScheduledNow :
            /\ clientTimers'[x] = (IF 1000 * 2^reconnectAttemptsRef < 30000
                                   THEN 1000 * 2^reconnectAttemptsRef ELSE 30000)
            /\ reconnectAttemptsRef' = reconnectAttemptsRef + 1
       /\ last'.op = "ws_open" => reconnectAttemptsRef' = 0
       /\ (ScheduledNow = {} /\ last'.op # "ws_open") => UNCHANGED reconnectAttemptsRef]_vars

\* After a successful open the sixth attempt in a row (k = 5) is pending
\* with the ceiling as its delay.
C29_Witness ==
    /\ hasConnectedRef
    /\ reconnectAttemptsRef = 6
    /\ \E x \in DOMAIN clientTimers : clientTimers[x] = 30000

\* WebSocket objects made by the step.
OpenedNow == {s \in ClientSockets : wsState[s] = "none" /\ wsState'[s] = "connecting"}

\* C30: the client makes a WebSocket or schedules a reconnect only while it
\* holds a session token and the component is mounted; none after
\* logoutUser until the next successful login, none after the unmount.
C30_ConnectOnlyWithTokenWhileMounted ==
    [][(OpenedNow # {} \/ ScheduledNow # {})
           => (sessionTokenRef # NoToken /\ lifecycle = "mounted")]_vars

\* WebSocket objects of the client that are OPEN or CONNECTING.
LiveSockets == {s \in ClientSockets : wsState[s] \in {"open", "connecting"}}

\* C40: the client has at most one WebSocket that is OPEN or CONNECTING, and
\* socketRef refers to it.
C40_OneLiveSocketInSocketRef ==
    /\ Cardinality(LiveSockets) <= 1
    /\ \A s \in LiveSockets : socketRef = s

\* C31: when a socket opens after an earlier open, the step sends on that
\* socket one JOIN_ROOM for every room id of the joined-room set.
C31_RejoinOnReconnect ==
    [][\A s \in ClientSockets :
          (last'.op = "ws_open" /\ wsState[s] = "connecting" /\ wsState'[s] = "open"
              /\ hasConnectedRef)
          => \A r \in joinedRoomsRef : JoinSent(s, r) \in sent']_vars

\* C32: when a kick or ban of user U in room R completes (its removal notice
\* is broadcast), no connection of U is in R's subscriber set or has R in
\* its joined-room set, the step closes no socket and changes no
\* subscription, and the notice is written only to subscribers of R that
\* are not connections of U.
C32_RemovedAfterKick ==
    [][\A t \in DOMAIN tasks :
          (tasks[t].pc = "kick_persist" /\ last'.op = "kick_notice" /\ tasks'[t].pc = "idle")
          => LET r == tasks[t].roomId
                 u == tasks[t].target
             IN  /\ UNCHANGED << sock, rooms, heap, metaRooms >>
                 /\ \A c \in socketMeta : metaUser[c] = u =>
                        (~InRoom(c, r) /\ ~SeqHas(metaRooms[c], r))
                 /\ \A f \in out' : /\ f.type = "SYSTEM"
                                    /\ InRoom(f.to, r)
                                    /\ metaUser[f.to] # u]_vars

\* C33: a close handler that a throwing persistMessage ended has still
\* unwound the connection: the socket is in no room's subscriber set, the
\* typing timeouts of its rooms are cancelled, and its registry entry is
\* deleted.
C33_CloseUnwindsDespiteFailure ==
    \A c \in Conns : cl[c].pc = "aborted" =>
        /\ c \notin socketMeta
        /\ \A r \in DOMAIN rooms : c \notin heap[rooms[r]]
        /\ \A i \in 1..Len(metaRooms[c]) :
               (\A c2 \in Conns \ {c} : ~(InRoom(c2, metaRooms[c][i]) /\ metaUser[c2] = metaUser[c]))
               => PendingFor(timers, metaRooms[c][i], metaUser[c]) = {}

\* C34: every frame a step writes goes to a connection whose socket is open,
\* also while a closed connection is still in a subscriber set.
C34_NoFrameToClosedSocket ==
    \A f \in out : sock[f.to] = "open"

\* A message was broadcast to the private room while a closed connection
\* whose close handler is suspended was still in the room's subscriber set.
C34_Witness ==
    /\ last.op = "send_broadcast"
    /\ out # {}
    /\ \E c \in Conns : /\ sock[c] = "closed"
                        /\ cl[c].pc \in {"offline", "persist"}
                        /\ InRoom(c, PrivateRoom)
                        /\ \A f \in out : f.to # c

\* The user has a connection that went through the connection handler and
\* whose socket is open.
HasLiveConnection(u) ==
    \E c \in Conns : sock[c] = "open" /\ hs[c] = "ready" /\ metaUser[c] = u

\* C35: whenever no connection handler and no close handler is in progress,
\* the stored status of a user is 'offline' exactly when the user has no
\* live connection.
C35_StatusTracksConnections ==
    Quiescent => \A u \in UserDb : userStatus[u] = "offline" <=> ~HasLiveConnection(u)

\* C36: whenever no connection handler and no close handler is in progress,
\* a connection has a registry entry exactly when it is in the presence set
\* of its user.
C36_RegistryMatchesPresence ==
    Quiescent => \A c \in Conns :
        c \in socketMeta <=> (MapHas(onlineUsers, metaUser[c]) /\ c \in onlineUsers[metaUser[c]])

\* The connection is in the registry, in a presence set or in a room.
Tracked(c) ==
    \/ c \in socketMeta
    \/ \E u \in DOMAIN onlineUsers : c \in onlineUsers[u]
    \/ \E r \in DOMAIN rooms : c \in heap[rooms[r]]

\* C37: a socket that has closed is eventually in no registry entry, no
\* presence set and no room, whenever it closed.
C37_ClosedEventuallyUntracked ==
    \A c \in Conns : (sock[c] = "closed") ~> ~Tracked(c)

\* The handler slot holds a JOIN_ROOM of the connection for the room that
\* awaits Room.findOne and will be allowed.
JoinUnderWay(t, c, r) ==
    /\ tasks[t].pc = "join_find"
    /\ tasks[t].conn = c
    /\ tasks[t].roomId = r
    /\ tasks[t].rec.exists
    /\ canJoinRoom(tasks[t].rec, metaUser[c])

\* C38: a SEND_MESSAGE, TYPING or READ_RECEIPT for room R that a connection
\* sends after a JOIN_ROOM for R which succeeds is not dropped as coming
\* from a connection that has not joined.
C38_FramesInArrivalOrder ==
    [][\A t \in DOMAIN tasks :
          JoinUnderWay(t, last'.conn, last'.roomId)
          => last'.op \notin {"send_dropped", "typing_dropped", "receipt_dropped"}]_vars

\* C39: of two accepted SEND_MESSAGE frames of one connection for one room,
\* the one received first is persisted first and broadcast first: the
\* second is not handed to persistMessage while the first still awaits
\* Room.updateOne, and is not broadcast while the first is still awaiting
\* the database.
C39_SendsKeepArrivalOrder ==
    [][\A t1, t2 \in DOMAIN tasks, c \in {last'.conn} \cap Conns :
          (/\ Sending(t1, c, parseClientMessage(FirstFrame).text)
           /\ Sending(t2, c, parseClientMessage(SecondFrame).text)
           /\ tasks[t1].roomId = tasks[t2].roomId)
          => /\ (tasks'[t2].pc = "send_persist" /\ tasks[t2].pc = "send_update")
                    => tasks[t1].pc = "send_persist"
             /\ ~(last'.op = "send_broadcast" /\ tasks'[t2].pc = "idle")]_vars

====
